---- MODULE Spec2Model ----
(***************************************************************************)
(* Parlay Finder: the parlay combination engine and the correlation        *)
(* penalty engine of src/lib/cache.ts (imported as '@/lib/correlation').   *)
(*                                                                         *)
(* Numbers.  The code computes with JavaScript doubles; the model computes *)
(* the same expressions in exact arithmetic.  A probability is a fraction  *)
(* m / 20^e, written [m |-> limbs, e |-> exponent], where the numerator m  *)
(* is an arbitrary-size natural number kept as a little-endian sequence of *)
(* limbs in base 10^4: 0.80 is 16/20, 0.90 is 18/20, 0.95 is 19/20 and     *)
(* 0.85 is 17/20.  A leg's smoothedProb is kept as its number of           *)
(* twentieths.                                                             *)
(*                                                                         *)
(* Optional values.  A property that may be undefined is <<>> when it is   *)
(* undefined and <<v>> when it has the value v.  An optional string of a   *)
(* leg (gameId, gameDate, team, position) is "" when it is missing: the    *)
(* code only tests such a field for truthiness or equality with a          *)
(* non-empty string.                                                       *)
(***************************************************************************)
EXTENDS Integers, Sequences, FiniteSets, TLC

VARIABLES candidateLegs, options, topN, called, parlays, topParlays, legs, penaltyResult,
          gameLogs, legOptions, generatedLegs, probArgs, probResult, confidence,
          rawLog, normalizedLog,
          allLogs, activityArgs, playerStatus, activeGameLogs,
          cacheDir, now, cacheArgs, cacheResult, lastSet,
          weekFiles, sampleFile, request, rangeResult, response,
          probResponse

\* the arguments and results of the calls into '@/lib/prob'
probVars == <<gameLogs, legOptions, generatedLegs, probArgs, probResult, confidence,
              rawLog, normalizedLog>>

\* the activity filter of '@/lib/player-filter'
activityVars == <<allLogs, activityArgs, playerStatus, activeGameLogs>>

\* the file cache: the files of data/cache, the clock, the last call and its
\* result, and the last setCache of each key that no deleteCache or
\* clearCache followed
cacheVars == <<cacheDir, now, cacheArgs, cacheResult, lastSet>>

\* the game log files, the request to /api/legs and the responses of the
\* routes
routeVars == <<weekFiles, sampleFile, request, rangeResult, response, probResponse>>

hostVars == <<activityVars, cacheVars, routeVars>>

vars == <<candidateLegs, options, topN, called, parlays, topParlays, legs, penaltyResult,
          probVars, hostVars>>

----------------------------------------------------------------------------
(* Bounds *)

MaxPool == 3

MaxParlayLegs == 4

MaxTopN == 1

----------------------------------------------------------------------------
(* Optional values *)

Undefined == <<>>

Some(v) == <<v>>

\* x ?? d
OrElse(x, d) == IF x = Undefined THEN d ELSE x[1]

\* a || b on strings ("" is falsy)
OrStr(a, b) == IF a # "" THEN a ELSE b

Min(a, b) == IF a < b THEN a ELSE b

Max(a, b) == IF a > b THEN a ELSE b

----------------------------------------------------------------------------
(* Exact arithmetic *)

BigBase == 10^4

Unit == 4 * 5

RECURSIVE BigNorm(_)
BigNorm(x) ==
  IF Len(x) > 1 /\ x[Len(x)] = 0 THEN BigNorm(SubSeq(x, 1, Len(x) - 1)) ELSE x

RECURSIVE BigOfInt(_)
BigOfInt(n) ==
  IF n < BigBase THEN <<n>> ELSE <<n % BigBase>> \o BigOfInt(n \div BigBase)

RECURSIVE BigAddC(_, _, _)
BigAddC(x, y, carry) ==
  IF x = <<>> /\ y = <<>>
  THEN IF carry = 0 THEN <<>> ELSE <<carry>>
  ELSE LET a == IF x = <<>> THEN 0 ELSE Head(x)
           b == IF y = <<>> THEN 0 ELSE Head(y)
           t == a + b + carry
       IN <<t % BigBase>> \o
          BigAddC(IF x = <<>> THEN <<>> ELSE Tail(x),
                  IF y = <<>> THEN <<>> ELSE Tail(y), t \div BigBase)

BigAdd(x, y) == BigNorm(BigAddC(x, y, 0))

\* x - y for x >= y
RECURSIVE BigSubB(_, _, _)
BigSubB(x, y, borrow) ==
  IF x = <<>> THEN <<>>
  ELSE LET b == IF y = <<>> THEN 0 ELSE Head(y)
           t == Head(x) - b - borrow
       IN <<IF t < 0 THEN t + BigBase ELSE t>> \o
          BigSubB(Tail(x), IF y = <<>> THEN <<>> ELSE Tail(y),
                  IF t < 0 THEN 1 ELSE 0)

BigSub(x, y) == BigNorm(BigSubB(x, y, 0))

\* x * d for one limb d
RECURSIVE BigMulLimb(_, _, _)
BigMulLimb(x, d, carry) ==
  IF x = <<>>
  THEN IF carry = 0 THEN <<>> ELSE <<carry>>
  ELSE LET t == Head(x) * d + carry
       IN <<t % BigBase>> \o BigMulLimb(Tail(x), d, t \div BigBase)

RECURSIVE BigMul(_, _)
BigMul(x, y) ==
  IF y = <<>> THEN <<0>>
  ELSE IF Len(y) = 1 THEN BigNorm(BigMulLimb(x, y[1], 0))
  ELSE BigAdd(BigNorm(BigMulLimb(x, Head(y), 0)), <<0>> \o BigMul(x, Tail(y)))

RECURSIVE BigLess(_, _)
BigLess(x, y) ==
  IF Len(x) # Len(y) THEN Len(x) < Len(y)
  ELSE IF x = <<>> THEN FALSE
  ELSE IF x[Len(x)] # y[Len(y)] THEN x[Len(x)] < y[Len(y)]
  ELSE BigLess(SubSeq(x, 1, Len(x) - 1), SubSeq(y, 1, Len(y) - 1))

RECURSIVE BigPow(_, _)
BigPow(b, k) == IF k = 0 THEN <<1>> ELSE BigMul(BigPow(b, k - 1), BigOfInt(b))

\* the number n / 20^e
Num(n, e) == [m |-> BigOfInt(n), e |-> e]

NumOne == Num(1, 0)

\* the numerator of x over 20^e, for e >= x.e
Scaled(x, e) == IF e = x.e THEN x.m ELSE BigMul(x.m, BigPow(Unit, e - x.e))

NumEq(x, y) == Scaled(x, Max(x.e, y.e)) = Scaled(y, Max(x.e, y.e))

NumLess(x, y) == BigLess(Scaled(x, Max(x.e, y.e)), Scaled(y, Max(x.e, y.e)))

NumLeq(x, y) == ~NumLess(y, x)

NumMul(x, y) == [m |-> BigMul(x.m, y.m), e |-> x.e + y.e]

\* 1 - x for x <= 1
NumOneMinus(x) == [m |-> BigSub(BigPow(Unit, x.e), x.m), e |-> x.e]

\* Math.pow(b, k) for b = n/20
RECURSIVE NumPow(_, _)
NumPow(n, k) == IF k = 0 THEN NumOne ELSE NumMul(NumPow(n, k - 1), Num(n, 1))

\* Math.max(x, 0): every modelled number is non-negative
NumMax0(x) == x

----------------------------------------------------------------------------
(* Legs *)

\* String.prototype.toUpperCase on the position strings of the model
toUpperCase(s) ==
  CASE s = "qb" -> "QB"
    [] s = "wr" -> "WR"
    [] s = "te" -> "TE"
    [] s = "rb" -> "RB"
    [] OTHER -> s

\* A Leg object.  smoothedProb is in twentieths; ref is the identity of the
\* JavaScript object (two objects with equal fields are still two legs).
Leg(playerId, statType, smoothedProb, gameId, gameDate, team, position) ==
  [playerId |-> playerId, statType |-> statType, smoothedProb |-> smoothedProb,
   gameId |-> gameId, gameDate |-> gameDate, team |-> team,
   position |-> position, ref |-> 0]

\* The legs the inputs are drawn from.  The last entry has the same field
\* values as the second.
LegCatalogue ==
  << Leg("p1", "pass_yards", 18, "G1", "D1", "A", "QB"),
     Leg("p2", "rec_yards",  20, "G1", "D1", "A", "wr"),
     Leg("p3", "rec_yards",  15, "G2", "D1", "B", "TE"),
     Leg("p4", "rush_yards", 16, "G2", "D1", "C", "RB"),
     Leg("p5", "rush_yards", 18, "",   "",   "",  "RB"),
     Leg("p6", "receptions", 20, "",   "",   "",  ""),
     Leg("p7", "pass_yards", 16, "",   "D2", "B", "qb"),
     Leg("p8", "rec_yards",  18, "",   "D2", "A", "WR"),
     Leg("p2", "rec_yards",  20, "G1", "D1", "A", "wr") >>

\* the sequence s with the object identities 1..Len(s)
WithRefs(s) == [i \in 1..Len(s) |-> [s[i] EXCEPT !.ref = i]]

RECURSIVE SeqOfSet(_)
SeqOfSet(S) ==
  IF S = {} THEN <<>>
  ELSE LET x == CHOOSE y \in S : \A z \in S : y <= z
       IN <<x>> \o SeqOfSet(S \ {x})

\* a candidate pool: the catalogue entries of the index set S, in
\* catalogue order
Pool(S) == WithRefs([i \in 1..Cardinality(S) |-> LegCatalogue[SeqOfSet(S)[i]]])

\* an input of calculateParlayPenalties: the catalogue entries f[1], f[2], ...
LegList(f) == WithRefs([i \in DOMAIN f |-> LegCatalogue[f[i]]])

----------------------------------------------------------------------------
(* src/lib/cache.ts: validity of a combination *)

isQBPassingYards(leg) ==
  leg.statType = "pass_yards" /\ toUpperCase(leg.position) = "QB"

isWRTEReceivingYards(leg) ==
  LET position == toUpperCase(leg.position)
  IN leg.statType = "rec_yards" /\ (position = "WR" \/ position = "TE")

\* mutant: the stacking rule never fires
violatesSameTeamStack_Never(leg1, leg2, allowSameTeamStack) == FALSE

violatesSameTeamStack(leg1, leg2, allowSameTeamStack) ==
  IF allowSameTeamStack THEN FALSE
  ELSE IF leg1.team = "" \/ leg2.team = "" \/ leg1.team # leg2.team THEN FALSE
  ELSE \/ (isQBPassingYards(leg1) /\ isWRTEReceivingYards(leg2))
       \/ (isQBPassingYards(leg2) /\ isWRTEReceivingYards(leg1))

\* mutant: a leg without gameId and gameDate is a game of its own
gameKey_PerPlayer(leg) == OrStr(leg.gameId, OrStr(leg.gameDate, leg.playerId))

\* leg.gameId || leg.gameDate || 'unknown'
gameKey(leg) == OrStr(leg.gameId, OrStr(leg.gameDate, "unknown"))

\* mutant: the duplicate-player check is missing
isValidParlay_NoPlayerCheck(ls, legCount, allowSameGame, allowSameTeamStack) ==
  IF Len(ls) # legCount THEN FALSE
  ELSE IF ~allowSameGame
          /\ \E i \in 1..Len(ls) : \E j \in 1..(i - 1) : gameKey(ls[j]) = gameKey(ls[i])
       THEN FALSE
  ELSE IF ~allowSameTeamStack
          /\ \E i \in 1..Len(ls) : \E j \in (i + 1)..Len(ls) :
                violatesSameTeamStack(ls[i], ls[j], allowSameTeamStack)
       THEN FALSE
  ELSE TRUE

\* mutant: the one-leg-per-game check is missing
isValidParlay_NoGameCheck(ls, legCount, allowSameGame, allowSameTeamStack) ==
  IF Len(ls) # legCount THEN FALSE
  ELSE IF Cardinality({ls[i].playerId : i \in 1..Len(ls)}) # Len(ls) THEN FALSE
  ELSE IF ~allowSameTeamStack
          /\ \E i \in 1..Len(ls) : \E j \in (i + 1)..Len(ls) :
                violatesSameTeamStack(ls[i], ls[j], allowSameTeamStack)
       THEN FALSE
  ELSE TRUE

isValidParlay(ls, legCount, allowSameGame, allowSameTeamStack) ==
  IF Len(ls) # legCount THEN FALSE
  ELSE IF Cardinality({ls[i].playerId : i \in 1..Len(ls)}) # Len(ls) THEN FALSE
  ELSE IF ~allowSameGame
          /\ \E i \in 1..Len(ls) : \E j \in 1..(i - 1) : gameKey(ls[j]) = gameKey(ls[i])
       THEN FALSE
  ELSE IF ~allowSameTeamStack
          /\ \E i \in 1..Len(ls) : \E j \in (i + 1)..Len(ls) :
                violatesSameTeamStack(ls[i], ls[j], allowSameTeamStack)
       THEN FALSE
  ELSE TRUE

----------------------------------------------------------------------------
(* src/lib/cache.ts: correlation penalties *)

SameGameFactor == 18

SameTeamFactor == 19

StackFactor == 17

StackAmount == 3

\* the keys of a Map filled from the sequence ks, in insertion order
RECURSIVE MapKeys(_)
MapKeys(ks) ==
  IF ks = <<>> THEN <<>>
  ELSE LET init == MapKeys(SubSeq(ks, 1, Len(ks) - 1))
           k == ks[Len(ks)]
       IN IF \E i \in 1..Len(init) : init[i] = k THEN init ELSE Append(init, k)

CountOf(ks, k) == Cardinality({i \in 1..Len(ks) : ks[i] = k})

RECURSIVE calculateParlayProbabilityFrom(_, _)
calculateParlayProbabilityFrom(ls, product) ==
  IF ls = <<>> THEN product
  ELSE calculateParlayProbabilityFrom(Tail(ls),
                                      NumMul(product, Num(Head(ls).smoothedProb, 1)))

calculateParlayProbability(ls) == calculateParlayProbabilityFrom(ls, NumOne)

\* mutant: the factor is applied once per leg of the game, not per extra leg
RECURSIVE sameGamePenalties_PerLeg(_, _, _)
sameGamePenalties_PerLeg(keys, gameKeys, acc) ==
  IF keys = <<>> THEN acc
  ELSE LET count == CountOf(gameKeys, Head(keys))
           penaltyMultiplier == NumPow(SameGameFactor, count)
           next ==
             IF count > 1
             THEN [multiplier |-> NumMul(acc.multiplier, penaltyMultiplier),
                   penalties |-> Append(acc.penalties,
                       [type |-> "same_game", amount |-> NumOneMinus(penaltyMultiplier),
                        key |-> Head(keys), count |-> count])]
             ELSE acc
       IN sameGamePenalties_PerLeg(Tail(keys), gameKeys, next)

\* The loop over gameCounts.entries(): keys are the game keys still to
\* visit, acc is [multiplier, penalties].
RECURSIVE sameGamePenalties(_, _, _)
sameGamePenalties(keys, gameKeys, acc) ==
  IF keys = <<>> THEN acc
  ELSE LET count == CountOf(gameKeys, Head(keys))
           extraLegs == count - 1
           penaltyMultiplier == NumPow(SameGameFactor, extraLegs)
           next ==
             IF count > 1
             THEN [multiplier |-> NumMul(acc.multiplier, penaltyMultiplier),
                   penalties |-> Append(acc.penalties,
                       [type |-> "same_game", amount |-> NumOneMinus(penaltyMultiplier),
                        key |-> Head(keys), count |-> count])]
             ELSE acc
       IN sameGamePenalties(Tail(keys), gameKeys, next)

\* mutant: legs without a team are counted as one team
teamedLegs_All(ls) == ls

\* the legs counted in teamCounts and grouped in teamLegs
teamedLegs(ls) == SelectSeq(ls, LAMBDA l : l.team # "")

\* mutant: the team factor is assigned to the multiplier, not multiplied in
RECURSIVE sameTeamPenalties_Assign(_, _, _)
sameTeamPenalties_Assign(keys, teamKeys, acc) ==
  IF keys = <<>> THEN acc
  ELSE LET count == CountOf(teamKeys, Head(keys))
           extraLegs == count - 1
           penaltyMultiplier == NumPow(SameTeamFactor, extraLegs)
           next ==
             IF count > 1
             THEN [multiplier |-> penaltyMultiplier,
                   penalties |-> Append(acc.penalties,
                       [type |-> "same_team", amount |-> NumOneMinus(penaltyMultiplier),
                        key |-> Head(keys), count |-> count])]
             ELSE acc
       IN sameTeamPenalties_Assign(Tail(keys), teamKeys, next)

\* The loop over teamCounts.entries()
RECURSIVE sameTeamPenalties(_, _, _)
sameTeamPenalties(keys, teamKeys, acc) ==
  IF keys = <<>> THEN acc
  ELSE LET count == CountOf(teamKeys, Head(keys))
           extraLegs == count - 1
           penaltyMultiplier == NumPow(SameTeamFactor, extraLegs)
           next ==
             IF count > 1
             THEN [multiplier |-> NumMul(acc.multiplier, penaltyMultiplier),
                   penalties |-> Append(acc.penalties,
                       [type |-> "same_team", amount |-> NumOneMinus(penaltyMultiplier),
                        key |-> Head(keys), count |-> count])]
             ELSE acc
       IN sameTeamPenalties(Tail(keys), teamKeys, next)

\* mutant: the stack factor is applied once per receiving leg of the team
RECURSIVE stackPenalties_PerReceiver(_, _, _)
stackPenalties_PerReceiver(teams, ls, acc) ==
  IF teams = <<>> THEN acc
  ELSE LET group == SelectSeq(ls, LAMBDA l : l.team = Head(teams))
           hasQBPass == \E i \in 1..Len(group) : isQBPassingYards(group[i])
           receivers == Len(SelectSeq(group, isWRTEReceivingYards))
           next ==
             IF hasQBPass /\ receivers > 0
             THEN [multiplier |-> NumMul(acc.multiplier, NumPow(StackFactor, receivers)),
                   penalties |-> Append(acc.penalties,
                       [type |-> "qb_wr_stack", amount |-> Num(StackAmount, 1),
                        key |-> Head(teams), count |-> 1])]
             ELSE acc
       IN stackPenalties_PerReceiver(Tail(teams), ls, next)

\* The loop over teamLegs: teams are the groups still to visit, ls the legs
\* that have a team
RECURSIVE stackPenalties(_, _, _)
stackPenalties(teams, ls, acc) ==
  IF teams = <<>> THEN acc
  ELSE LET group == SelectSeq(ls, LAMBDA l : l.team = Head(teams))
           hasQBPass == \E i \in 1..Len(group) : isQBPassingYards(group[i])
           hasWRTERec == \E i \in 1..Len(group) : isWRTEReceivingYards(group[i])
           next ==
             IF hasQBPass /\ hasWRTERec
             THEN [multiplier |-> NumMul(acc.multiplier, Num(StackFactor, 1)),
                   penalties |-> Append(acc.penalties,
                       [type |-> "qb_wr_stack", amount |-> Num(StackAmount, 1),
                        key |-> Head(teams), count |-> 1])]
             ELSE acc
       IN stackPenalties(Tail(teams), ls, next)

\* A penalty is [type, amount, key, count]: key and count are what the
\* reason string embeds.
calculateParlayPenalties(ls) ==
  LET baseProbability == calculateParlayProbability(ls)
      gameKeys == [i \in 1..Len(ls) |-> gameKey(ls[i])]
      withTeam == teamedLegs(ls)
      teamKeys == [i \in 1..Len(withTeam) |-> withTeam[i].team]
      afterGame == sameGamePenalties(MapKeys(gameKeys), gameKeys,
                                     [multiplier |-> NumOne, penalties |-> <<>>])
      afterTeam == sameTeamPenalties(MapKeys(teamKeys), teamKeys, afterGame)
      afterStack == stackPenalties(MapKeys(teamKeys), withTeam, afterTeam)
      adjustedProbability == NumMul(baseProbability, afterStack.multiplier)
  IN [adjustedProbability |-> NumMax0(adjustedProbability),
      penalties |-> afterStack.penalties]

----------------------------------------------------------------------------
(* src/lib/cache.ts: generateParlays and getTopParlays *)

DefaultLegCount == 3

LegCountMin == 2

LegCountMax == 8

DefaultMinLegProb == 16

DefaultTopN == 20

\* ParlayOptions as passed by a caller; every property is optional
OptionSets ==
  [legCount : {Undefined, Some(1), Some(2)},
   minLegProb : {Undefined, Some(15)},
   singleGame : {Undefined, Some(TRUE)},
   gameId : {Undefined, Some("G1")},
   allowSameGame : {Undefined, Some(FALSE), Some(TRUE)},
   allowSameTeamStack : {Undefined, Some(FALSE), Some(TRUE)}]

legCountOf(opts) ==
  Max(LegCountMin, Min(LegCountMax, OrElse(opts.legCount, DefaultLegCount)))

minLegProbOf(opts) == OrElse(opts.minLegProb, DefaultMinLegProb)

singleGameOf(opts) == OrElse(opts.singleGame, FALSE)

\* mutant: singleGame does not force allowSameGame
allowSameGameOf_NotForced(opts) == OrElse(opts.allowSameGame, FALSE)

allowSameGameOf(opts) ==
  IF singleGameOf(opts) THEN TRUE ELSE OrElse(opts.allowSameGame, FALSE)

allowSameTeamStackOf(opts) == OrElse(opts.allowSameTeamStack, FALSE)

\* the two filters on the candidate legs
filteredLegsOf(cands, opts) ==
  LET byProb == SelectSeq(cands, LAMBDA leg : leg.smoothedProb >= minLegProbOf(opts))
  IN IF singleGameOf(opts) /\ opts.gameId # Undefined
     THEN SelectSeq(byProb, LAMBDA leg : leg.gameId = opts.gameId[1])
     ELSE byProb

\* mutant: estimatedProbability is the naive product, without the penalties
makeParlay_NaiveEstimate(current) ==
  LET r == calculateParlayPenalties(current)
  IN [legs |-> current,
      estimatedProbability |-> calculateParlayProbability(current),
      estProbability |-> r.adjustedProbability,
      penaltyBreakdown |-> IF Len(r.penalties) > 0 THEN Some(r.penalties) ELSE Undefined]

\* the Parlay pushed for a valid combination
makeParlay(current) ==
  LET r == calculateParlayPenalties(current)
  IN [legs |-> current,
      estimatedProbability |-> r.adjustedProbability,
      estProbability |-> r.adjustedProbability,
      penaltyBreakdown |-> IF Len(r.penalties) > 0 THEN Some(r.penalties) ELSE Undefined]

\* the parlays pushed by generateCombinations(arr, size, start, current), in
\* the order they are pushed; indices are 1-based
RECURSIVE generateCombinations(_, _, _, _, _)
RECURSIVE combinationsLoop(_, _, _, _, _)
generateCombinations(arr, size, start, current, opts) ==
  IF Len(current) = size
  THEN IF isValidParlay(current, legCountOf(opts), allowSameGameOf(opts),
                        allowSameTeamStackOf(opts))
       THEN <<makeParlay(current)>>
       ELSE <<>>
  ELSE combinationsLoop(arr, size, start, current, opts)

\* mutant: the recursion restarts at the first leg, giving every ordering
RECURSIVE combinationsLoop_Permutations(_, _, _, _, _)
combinationsLoop_Permutations(arr, size, i, current, opts) ==
  IF i > Len(arr) THEN <<>>
  ELSE generateCombinations(arr, size, 1, Append(current, arr[i]), opts)
       \o combinationsLoop_Permutations(arr, size, i + 1, current, opts)

combinationsLoop(arr, size, i, current, opts) ==
  IF i > Len(arr) THEN <<>>
  ELSE generateCombinations(arr, size, i + 1, Append(current, arr[i]), opts)
       \o combinationsLoop(arr, size, i + 1, current, opts)

\* _avgLegProb as the pair (sum of smoothedProb, number of legs)
avgLegProb(parlay) ==
  LET RECURSIVE sum(_)
      sum(ls) == IF ls = <<>> THEN 0 ELSE Head(ls).smoothedProb + sum(Tail(ls))
  IN [sum |-> sum(parlay.legs), n |-> Len(parlay.legs)]

\* mutant: no tie-break on the average leg probability
compareParlays_NoTieBreak(a, b) ==
  IF ~NumEq(b.estProbability, a.estProbability)
  THEN IF NumLess(b.estProbability, a.estProbability) THEN -1 ELSE 1
  ELSE 0

\* the sign of the comparator (a, b) of the sort
compareParlays(a, b) ==
  IF ~NumEq(b.estProbability, a.estProbability)
  THEN IF NumLess(b.estProbability, a.estProbability) THEN -1 ELSE 1
  ELSE LET x == avgLegProb(a)
           y == avgLegProb(b)
       IN IF y.sum * x.n < x.sum * y.n THEN -1
          ELSE IF y.sum * x.n > x.sum * y.n THEN 1 ELSE 0

\* Array.prototype.sort is stable: x goes after every element that does not
\* compare greater than it
RECURSIVE insertSorted(_, _)
insertSorted(s, x) ==
  IF s = <<>> THEN <<x>>
  ELSE IF compareParlays(Head(s), x) > 0 THEN <<x>> \o s
  ELSE <<Head(s)>> \o insertSorted(Tail(s), x)

RECURSIVE sortParlays(_)
sortParlays(s) ==
  IF s = <<>> THEN <<>>
  ELSE insertSorted(sortParlays(SubSeq(s, 1, Len(s) - 1)), s[Len(s)])

generateParlays(cands, opts) ==
  sortParlays(generateCombinations(filteredLegsOf(cands, opts), legCountOf(opts),
                                   1, <<>>, opts))

\* Array.prototype.slice(start, end) for 0 <= start, 0 <= end (0-based, end
\* exclusive)
slice(arr, start, end) ==
  IF Min(end, Len(arr)) <= start THEN <<>>
  ELSE SubSeq(arr, start + 1, Min(end, Len(arr)))

\* mutant: the slice is one element too long
getTopParlays_OneMore(cands, n, opts) ==
  LET allParlays == generateParlays(cands, opts)
  IN slice(allParlays, 0, OrElse(n, DefaultTopN) + 1)

getTopParlays(cands, n, opts) ==
  LET allParlays == generateParlays(cands, opts)
  IN slice(allParlays, 0, OrElse(n, DefaultTopN))

----------------------------------------------------------------------------
(* src/unnamed/part_005 ('@/lib/prob'): values and game logs *)

\* A statistic of a game log is a JavaScript value: a number, NaN, null or
\* undefined (a missing key reads as undefined).
NumberValue(v) == [kind |-> "number", v |-> v]

NaNValue == [kind |-> "NaN", v |-> 0]

NullValue == [kind |-> "null", v |-> 0]

UndefinedValue == [kind |-> "undefined", v |-> 0]

\* val === undefined || val === null
isNullish(x) == x.kind \in {"null", "undefined"}

isNaN(x) == x.kind = "NaN"

\* x || 0 for a statistic: NaN, null, undefined and 0 give 0
OrZero(x) == IF x.kind = "number" THEN x.v ELSE 0

\* A quotient of two integers, kept exact: num / den with den > 0.
Ratio(n, d) == [num |-> n, den |-> d]

RatioEq(a, b) == a.num * b.den = b.num * a.den

RatioGeq(a, b) == a.num * b.den >= b.num * a.den

RatioLess(a, b) == a.num * b.den < b.num * a.den

\* a literal with two decimals, such as 0.80
Hundredths(h) == Ratio(h, 100)

\* Object.entries(STAT_THRESHOLDS), in key order
StatTypes == <<"pass_yards", "rush_yards", "rec_yards", "receptions", "pass_tds">>

STAT_THRESHOLDS ==
  [pass_yards |-> <<150, 175, 200, 225>>,
   rush_yards |-> <<25, 40, 50, 60>>,
   rec_yards |-> <<25, 40, 50, 60>>,
   receptions |-> <<2, 3, 4, 5>>,
   pass_tds |-> <<1>>]

\* A game log.  gameDate is the time value of the date string (a day
\* number); gameId, team, opponent and position are "" when missing.
\* stats is <<pass_yards, rush_yards, rec_yards, receptions, pass_tds,
\* rush_attempts, targets>>.
GameLog(gameDate, gameId, team, opponent, stats) ==
  [playerId |-> "P1", gameDate |-> gameDate, gameId |-> gameId, team |-> team,
   opponent |-> opponent, position |-> "",
   pass_yards |-> stats[1], rush_yards |-> stats[2], rec_yards |-> stats[3],
   receptions |-> stats[4], pass_tds |-> stats[5],
   rush_attempts |-> stats[6], targets |-> stats[7]]

\* The games the inputs are drawn from, not in date order.  The six most
\* recent ones carry the receiving yards 80, 60, 55, 40, 30, 20.
GameCatalogue ==
  << GameLog(6, "G6", "KC", "DEN",
             <<NumberValue(230), NumberValue(30), NumberValue(55), NumberValue(5),
               NumberValue(1), NumberValue(8), NumberValue(7)>>),
     GameLog(8, "G8", "KC", "LV",
             <<NumberValue(260), NumberValue(70), NumberValue(80), NumberValue(6),
               NumberValue(2), NumberValue(12), NumberValue(9)>>),
     GameLog(7, "G7", "KC", "LAC",
             <<NumberValue(240), NumberValue(65), NumberValue(60), NumberValue(5),
               NumberValue(1), UndefinedValue, UndefinedValue>>),
     GameLog(5, "G5", "KC", "BUF",
             <<NumberValue(180), NumberValue(45), NumberValue(40), NumberValue(4),
               NumberValue(3), NumberValue(10), NumberValue(0)>>),
     GameLog(4, "G4", "KC", "DEN",
             <<NumberValue(210), NaNValue, NumberValue(30), NumberValue(3),
               NumberValue(1), NullValue, NumberValue(6)>>),
     GameLog(3, "G3", "", "",
             <<NumberValue(160), UndefinedValue, NumberValue(20), NumberValue(0),
               NumberValue(0), NumberValue(0), NullValue>>),
     GameLog(2, "G2", "KC", "LV",
             <<NaNValue, NullValue, UndefinedValue, UndefinedValue,
               NullValue, UndefinedValue, UndefinedValue>>),
     GameLog(2, "", "KC", "LAC",
             <<NumberValue(150), NumberValue(25), NumberValue(25), NumberValue(1),
               NumberValue(1), NumberValue(5), NumberValue(3)>>) >>

\* the games of the set S of catalogue indexes, in catalogue order, as the
\* logs of a player of the given position
LogsOf(S, position) ==
  LET order == SeqOfSet(S)
  IN [i \in 1..Len(order) |-> [GameCatalogue[order[i]] EXCEPT !.position = position]]

\* n games of a quarterback, the k most recent ones with 30 receiving yards
\* and the others with 20
SampleLogs(k, n) ==
  [i \in 1..n |->
     [GameLog(n + 1 - i, "", "KC", "",
              <<UndefinedValue, UndefinedValue, NumberValue(IF i <= k THEN 30 ELSE 20),
                UndefinedValue, UndefinedValue, UndefinedValue, UndefinedValue>>)
      EXCEPT !.position = "QB"]]

----------------------------------------------------------------------------
(* src/unnamed/part_005 ('@/lib/prob'): the probability engine *)

DEFAULT_MIN_PROBABILITY == 80

DEFAULT_MIN_SAMPLE_SIZE == 6

DEFAULT_MIN_TOUCHES_PER_GAME == 5

DEFAULT_BETA_A == 4

DEFAULT_BETA_B == 2

\* the band edges, in hundredths
CONFIDENCE_THRESHOLDS == [Elite |-> 85, Strong |-> 75, Fair |-> 65, Speculative |-> 0]

RECURSIVE SumOf(_)
SumOf(values) == IF values = <<>> THEN 0 ELSE Head(values).v + SumOf(Tail(values))

RECURSIVE SumOfSquares(_)
SumOfSquares(values) ==
  IF values = <<>> THEN 0
  ELSE Head(values).v * Head(values).v + SumOfSquares(Tail(values))

\* The standard deviation of n values is sqrt(n * sum(v^2) - sum(v)^2) / n:
\* it is kept as [sq, n] for the number sqrt(sq) / n, and is NaN when a value
\* is NaN.
calculateStandardDeviation(values) ==
  IF Len(values) = 0 THEN [kind |-> "number", sq |-> 0, n |-> 1]
  ELSE IF Len(values) = 1 THEN [kind |-> "number", sq |-> 0, n |-> 1]
  ELSE IF \E i \in 1..Len(values) : isNaN(values[i])
       THEN [kind |-> "NaN", sq |-> 0, n |-> 1]
  ELSE [kind |-> "number",
        sq |-> Len(values) * SumOfSquares(values) - SumOf(values) * SumOf(values),
        n |-> Len(values)]

\* Math.round(x / 4.5) for an integer x: floor(x / 4.5 + 1/2)
RoundYardsPerCarry(x) == (4 * x + 9) \div 18

\* The touches of one game (the body of the loop of
\* calculateAverageTouchesPerGame).  A NaN sum is given as 0: the loop only
\* tests it with touches > 0, which is false for NaN.
touchesOf(log, position) ==
  IF position = "RB"
  THEN LET rush == IF ~isNullish(log.rush_attempts) THEN log.rush_attempts
                   ELSE IF ~isNullish(log.rush_yards)
                        THEN NumberValue(RoundYardsPerCarry(OrZero(log.rush_yards)))
                        ELSE NumberValue(0)
       IN IF isNaN(rush) THEN 0 ELSE rush.v + OrZero(log.receptions)
  ELSE IF position = "WR" \/ position = "TE"
  THEN IF ~isNullish(log.targets) THEN OrZero(log.targets)
       ELSE OrZero(log.receptions)
  ELSE 0

\* the loop of calculateAverageTouchesPerGame: acc is [totalTouches,
\* gamesWithData]
RECURSIVE touchesLoop(_, _, _)
touchesLoop(logs, position, acc) ==
  IF logs = <<>> THEN acc
  ELSE LET touches == touchesOf(Head(logs), position)
       IN touchesLoop(Tail(logs), position,
            IF touches > 0
            THEN [totalTouches |-> acc.totalTouches + touches,
                  gamesWithData |-> acc.gamesWithData + 1]
            ELSE acc)

\* mutant: a quarterback is not exempt
calculateAverageTouchesPerGame_NoExemption(logs) ==
  IF Len(logs) = 0 THEN Ratio(0, 1)
  ELSE LET position == toUpperCase(logs[1].position)
           final == touchesLoop(logs, position, [totalTouches |-> 0, gamesWithData |-> 0])
       IN IF final.gamesWithData > 0
          THEN Ratio(final.totalTouches, final.gamesWithData)
          ELSE Ratio(0, 1)

calculateAverageTouchesPerGame(logs) ==
  IF Len(logs) = 0 THEN Ratio(0, 1)
  ELSE LET position == toUpperCase(logs[1].position)
       IN IF position = "QB" THEN Ratio(100, 1)
          ELSE LET final == touchesLoop(logs, position,
                                        [totalTouches |-> 0, gamesWithData |-> 0])
               IN IF final.gamesWithData > 0
                  THEN Ratio(final.totalTouches, final.gamesWithData)
                  ELSE Ratio(0, 1)

\* gameLogs.map(log => log[statType])
statColumn(logs, statType) == [i \in 1..Len(logs) |-> logs[i][statType]]

\* mutant: every value that is not null or undefined counts
hasSufficientStatData_CountsNaN(logs, statType, minCount) ==
  IF Len(logs) = 0 THEN FALSE
  ELSE Len(SelectSeq(statColumn(logs, statType), LAMBDA val : ~isNullish(val))) >= minCount

hasSufficientStatData(logs, statType, minCount) ==
  IF Len(logs) = 0 THEN FALSE
  ELSE LET statValues == SelectSeq(statColumn(logs, statType),
                                   LAMBDA val : ~isNullish(val) /\ ~isNaN(val))
       IN Len(statValues) >= minCount

\* mutant: a threshold compares the other way round
countAboveThreshold_Below(statValues, threshold) ==
  Len(SelectSeq(statValues, LAMBDA val : val.kind = "number" /\ val.v <= threshold))

\* statValues.filter(val => val >= threshold).length (NaN >= threshold is
\* false)
countAboveThreshold(statValues, threshold) ==
  Len(SelectSeq(statValues, LAMBDA val : val.kind = "number" /\ val.v >= threshold))

\* mutant: the band edges are exclusive
getConfidenceLevel_Exclusive(smoothedProb) ==
  IF RatioLess(Hundredths(CONFIDENCE_THRESHOLDS.Elite), smoothedProb) THEN "Elite"
  ELSE IF RatioLess(Hundredths(CONFIDENCE_THRESHOLDS.Strong), smoothedProb) THEN "Strong"
  ELSE IF RatioLess(Hundredths(CONFIDENCE_THRESHOLDS.Fair), smoothedProb) THEN "Fair"
  ELSE "Speculative"

getConfidenceLevel(smoothedProb) ==
  IF RatioGeq(smoothedProb, Hundredths(CONFIDENCE_THRESHOLDS.Elite)) THEN "Elite"
  ELSE IF RatioGeq(smoothedProb, Hundredths(CONFIDENCE_THRESHOLDS.Strong)) THEN "Strong"
  ELSE IF RatioGeq(smoothedProb, Hundredths(CONFIDENCE_THRESHOLDS.Fair)) THEN "Fair"
  ELSE "Speculative"

\* mutant: the prior's failures are left out of the denominator
calculateProbability_NoBetaB(logs, statType, threshold, betaA, betaB) ==
  LET statValues == SelectSeq(statColumn(logs, statType), LAMBDA val : ~isNullish(val))
      empty == [rawProb |-> Ratio(0, 1), smoothedProb |-> Ratio(0, 1), sampleSize |-> 0,
                lastNGameValues |-> <<>>,
                consistency |-> [kind |-> "number", sq |-> 0, n |-> 1]]
  IN IF Len(logs) = 0 THEN empty
     ELSE IF Len(statValues) = 0 THEN empty
     ELSE LET sampleSize == Len(statValues)
              k == countAboveThreshold(statValues, threshold)
          IN [rawProb |-> Ratio(k, sampleSize),
              smoothedProb |-> Ratio(k + betaA, sampleSize + betaA),
              sampleSize |-> sampleSize,
              lastNGameValues |-> statValues,
              consistency |-> calculateStandardDeviation(statValues)]

calculateProbability(logs, statType, threshold, betaA, betaB) ==
  LET statValues == SelectSeq(statColumn(logs, statType), LAMBDA val : ~isNullish(val))
      empty == [rawProb |-> Ratio(0, 1), smoothedProb |-> Ratio(0, 1), sampleSize |-> 0,
                lastNGameValues |-> <<>>,
                consistency |-> [kind |-> "number", sq |-> 0, n |-> 1]]
  IN IF Len(logs) = 0 THEN empty
     ELSE IF Len(statValues) = 0 THEN empty
     ELSE LET sampleSize == Len(statValues)
              k == countAboveThreshold(statValues, threshold)
          IN [rawProb |-> Ratio(k, sampleSize),
              smoothedProb |-> Ratio(k + betaA, sampleSize + betaA + betaB),
              sampleSize |-> sampleSize,
              lastNGameValues |-> statValues,
              consistency |-> calculateStandardDeviation(statValues)]

\* the comparator of the sort by date: most recent first
compareDates(a, b) == b.gameDate - a.gameDate

RECURSIVE insertByDate(_, _)
insertByDate(s, x) ==
  IF s = <<>> THEN <<x>>
  ELSE IF compareDates(Head(s), x) > 0 THEN <<x>> \o s
  ELSE <<Head(s)>> \o insertByDate(Tail(s), x)

\* [...gameLogs].sort(by date, descending), a stable sort
RECURSIVE sortByDate(_)
sortByDate(s) ==
  IF s = <<>> THEN <<>>
  ELSE insertByDate(sortByDate(SubSeq(s, 1, Len(s) - 1)), s[Len(s)])

\* sortedLogs: the lastN most recent games
selectLogs(logs, lastN) == slice(sortByDate(logs), 0, lastN)

\* The options of generateLegs after its parameter defaults
lastNOf(logs, opts) == OrElse(opts.lastN, Len(logs))

minProbabilityOf(opts) == Hundredths(OrElse(opts.minProbability, DEFAULT_MIN_PROBABILITY))

minSampleSizeOf(opts) == OrElse(opts.minSampleSize, DEFAULT_MIN_SAMPLE_SIZE)

minTouchesPerGameOf(opts) == OrElse(opts.minTouchesPerGame, DEFAULT_MIN_TOUCHES_PER_GAME)

\* the object pushed onto legs (the reason text is not carried)
makeLeg(playerId, playerName, statType, threshold, prob, mostRecentLog) ==
  [playerId |-> playerId, playerName |-> playerName, statType |-> statType,
   threshold |-> threshold, smoothedProb |-> prob.smoothedProb,
   rawProb |-> prob.rawProb, confidence |-> getConfidenceLevel(prob.smoothedProb),
   sampleSize |-> prob.sampleSize, lastNGameValues |-> prob.lastNGameValues,
   consistency |-> prob.consistency,
   gameId |-> mostRecentLog.gameId, gameDate |-> mostRecentLog.gameDate,
   team |-> mostRecentLog.team, opponent |-> mostRecentLog.opponent,
   position |-> mostRecentLog.position]

\* mutant: the thresholds are tried from the highest down
RECURSIVE thresholdLoop_FromHighest(_, _, _, _, _, _)
thresholdLoop_FromHighest(playerId, playerName, sortedLogs, statType, thresholds, opts) ==
  IF thresholds = <<>> THEN <<>>
  ELSE LET threshold == thresholds[Len(thresholds)]
           prob == calculateProbability(sortedLogs, statType, threshold,
                                        DEFAULT_BETA_A, DEFAULT_BETA_B)
       IN IF /\ prob.sampleSize >= minSampleSizeOf(opts)
             /\ RatioGeq(prob.smoothedProb, minProbabilityOf(opts))
             /\ Len(prob.lastNGameValues) > 0
          THEN <<makeLeg(playerId, playerName, statType, threshold, prob, sortedLogs[1])>>
          ELSE thresholdLoop_FromHighest(playerId, playerName, sortedLogs, statType,
                                         SubSeq(thresholds, 1, Len(thresholds) - 1), opts)

\* mutant: the loop does not stop at the first accepted threshold
RECURSIVE thresholdLoop_NoBreak(_, _, _, _, _, _)
thresholdLoop_NoBreak(playerId, playerName, sortedLogs, statType, thresholds, opts) ==
  IF thresholds = <<>> THEN <<>>
  ELSE LET threshold == Head(thresholds)
           prob == calculateProbability(sortedLogs, statType, threshold,
                                        DEFAULT_BETA_A, DEFAULT_BETA_B)
           rest == thresholdLoop_NoBreak(playerId, playerName, sortedLogs, statType,
                                         Tail(thresholds), opts)
       IN IF /\ prob.sampleSize >= minSampleSizeOf(opts)
             /\ RatioGeq(prob.smoothedProb, minProbabilityOf(opts))
             /\ Len(prob.lastNGameValues) > 0
          THEN <<makeLeg(playerId, playerName, statType, threshold, prob, sortedLogs[1])>>
               \o rest
          ELSE rest

\* The loop over the thresholds of one statistic: the legs it pushes (none,
\* or one: it breaks after the first accepted threshold)
RECURSIVE thresholdLoop(_, _, _, _, _, _)
thresholdLoop(playerId, playerName, sortedLogs, statType, thresholds, opts) ==
  IF thresholds = <<>> THEN <<>>
  ELSE LET threshold == Head(thresholds)
           prob == calculateProbability(sortedLogs, statType, threshold,
                                        DEFAULT_BETA_A, DEFAULT_BETA_B)
       IN IF /\ prob.sampleSize >= minSampleSizeOf(opts)
             /\ RatioGeq(prob.smoothedProb, minProbabilityOf(opts))
             /\ Len(prob.lastNGameValues) > 0
          THEN <<makeLeg(playerId, playerName, statType, threshold, prob, sortedLogs[1])>>
          ELSE thresholdLoop(playerId, playerName, sortedLogs, statType,
                             Tail(thresholds), opts)

\* The loop over Object.entries(STAT_THRESHOLDS)
RECURSIVE statLoop(_, _, _, _, _)
statLoop(playerId, playerName, sortedLogs, statTypes, opts) ==
  IF statTypes = <<>> THEN <<>>
  ELSE LET statType == Head(statTypes)
           rest == statLoop(playerId, playerName, sortedLogs, Tail(statTypes), opts)
       IN IF ~hasSufficientStatData(sortedLogs, statType, 4) THEN rest
          ELSE thresholdLoop(playerId, playerName, sortedLogs, statType,
                             STAT_THRESHOLDS[statType], opts) \o rest

\* a.consistency || 0
consistencyOrZero(leg) ==
  IF leg.consistency.kind = "NaN" THEN [kind |-> "number", sq |-> 0, n |-> 1]
  ELSE leg.consistency

\* The comparator of the final sort: its sign.  sqrt(x)/m - sqrt(y)/n has
\* the sign of x * n^2 - y * m^2.
compareLegs(a, b) ==
  IF ~RatioEq(b.smoothedProb, a.smoothedProb)
  THEN IF RatioLess(a.smoothedProb, b.smoothedProb) THEN 1 ELSE -1
  ELSE LET consistencyA == consistencyOrZero(a)
           consistencyB == consistencyOrZero(b)
           x == consistencyA.sq * consistencyB.n * consistencyB.n
           y == consistencyB.sq * consistencyA.n * consistencyA.n
       IN IF x > y THEN 1 ELSE IF x < y THEN -1 ELSE 0

RECURSIVE insertLeg(_, _)
insertLeg(s, x) ==
  IF s = <<>> THEN <<x>>
  ELSE IF compareLegs(Head(s), x) > 0 THEN <<x>> \o s
  ELSE <<Head(s)>> \o insertLeg(Tail(s), x)

RECURSIVE sortLegs(_)
sortLegs(s) ==
  IF s = <<>> THEN <<>>
  ELSE insertLeg(sortLegs(SubSeq(s, 1, Len(s) - 1)), s[Len(s)])

\* mutant: the touches filter is not applied
generateLegs_NoTouchesFilter(playerId, playerName, logs, opts) ==
  LET sortedLogs == selectLogs(logs, lastNOf(logs, opts))
  IN sortLegs(statLoop(playerId, playerName, sortedLogs, StatTypes, opts))

generateLegs(playerId, playerName, logs, opts) ==
  LET sortedLogs == selectLogs(logs, lastNOf(logs, opts))
      avgTouchesPerGame == calculateAverageTouchesPerGame(sortedLogs)
  IN IF RatioLess(avgTouchesPerGame, Ratio(minTouchesPerGameOf(opts), 1)) THEN <<>>
     ELSE sortLegs(statLoop(playerId, playerName, sortedLogs, StatTypes, opts))

----------------------------------------------------------------------------
(* src/unnamed/part_005 ('@/lib/prob'): the stat normalizer *)

\* a key that the object does not have
AbsentValue == [kind |-> "absent", v |-> 0]

\* key in obj
hasKey(obj, key) == obj[key].kind # "absent"

\* obj[key]: a missing key reads as undefined
readKey(obj, key) == IF hasKey(obj, key) THEN obj[key] ELSE UndefinedValue

\* Object.entries(statMappings): <<altKey, standardKey>>
statMappings ==
  << <<"passing_yards", "pass_yards">>, <<"rushing_yards", "rush_yards">>,
     <<"receiving_yards", "rec_yards">>, <<"rec", "receptions">>,
     <<"passing_tds", "pass_tds">>, <<"pass_td", "pass_tds">> >>

expectedStatFields == <<"pass_yards", "rush_yards", "rec_yards", "receptions", "pass_tds">>

\* mutant: the alternate value is added to the canonical one
mapKey_Adds(normalized, altKey, standardKey) ==
  IF hasKey(normalized, altKey)
  THEN [normalized EXCEPT ![standardKey] =
          IF readKey(normalized, altKey).kind = "number"
          THEN NumberValue(OrZero(readKey(normalized, standardKey))
                           + readKey(normalized, altKey).v)
          ELSE readKey(normalized, altKey)]
  ELSE normalized

\* the body of the loop over the mappings
mapKey(normalized, altKey, standardKey) ==
  IF hasKey(normalized, altKey)
  THEN IF \/ ~hasKey(normalized, standardKey)
          \/ readKey(normalized, standardKey).kind = "null"
          \/ readKey(normalized, standardKey).kind = "undefined"
       THEN [normalized EXCEPT ![standardKey] = readKey(normalized, altKey)]
       ELSE normalized
  ELSE normalized

RECURSIVE applyMappings(_, _)
applyMappings(normalized, mappings) ==
  IF mappings = <<>> THEN normalized
  ELSE applyMappings(mapKey(normalized, Head(mappings)[1], Head(mappings)[2]),
                     Tail(mappings))

\* mutant: only a missing field is set to zero, a null one is kept
defaultField_KeepsNull(normalized, field) ==
  IF readKey(normalized, field).kind = "undefined"
  THEN [normalized EXCEPT ![field] = NumberValue(0)]
  ELSE normalized

\* the body of the loop over the expected fields
defaultField(normalized, field) ==
  IF readKey(normalized, field).kind = "undefined" \/ readKey(normalized, field).kind = "null"
  THEN [normalized EXCEPT ![field] = NumberValue(0)]
  ELSE normalized

RECURSIVE applyDefaults(_, _)
applyDefaults(normalized, fields) ==
  IF fields = <<>> THEN normalized
  ELSE applyDefaults(defaultField(normalized, Head(fields)), Tail(fields))

normalizeGameLog(gameLog) ==
  applyDefaults(applyMappings(gameLog, statMappings), expectedStatFields)

\* The keys of a raw record that the normalizer reads or writes
RawKeys ==
  <<"pass_yards", "rush_yards", "rec_yards", "receptions", "pass_tds",
    "passing_yards", "rushing_yards", "receiving_yards", "rec", "passing_tds", "pass_td">>

\* The value a key takes in the drawn records: the number differs from key
\* to key
RawValue(j, kind) ==
  IF kind = "number" THEN NumberValue(10 * j)
  ELSE IF kind = "zero" THEN NumberValue(0)
  ELSE [kind |-> kind, v |-> 0]

\* the raw record whose keys of the set S of indexes have the kinds given by
\* f, and that has no other statistic
RawRecord(S, f) ==
  [key \in {RawKeys[j] : j \in 1..Len(RawKeys)} \cup {"playerId"} |->
     IF key = "playerId" THEN [kind |-> "string", v |-> 1]
     ELSE LET j == CHOOSE i \in 1..Len(RawKeys) : RawKeys[i] = key
          IN IF j \in S THEN RawValue(j, f[j]) ELSE AbsentValue]

----------------------------------------------------------------------------
(* The calls into '@/lib/prob' *)

MaxLogs == 6

MaxSample == 14

MaxFields == 3

DefaultLegOptions ==
  [lastN |-> Undefined, minProbability |-> Undefined, minSampleSize |-> Undefined,
   minTouchesPerGame |-> Undefined]

\* minProbability is in hundredths
LegOptionSets ==
  [lastN : {Undefined, Some(4)},
   minProbability : {Undefined, Some(65)},
   minSampleSize : {Undefined, Some(3)},
   minTouchesPerGame : {Undefined, Some(2)}]

Positions == {"QB", "RB", "wr", "K", ""}

NoProbability == calculateProbability(<<>>, "pass_yards", 0, DEFAULT_BETA_A, DEFAULT_BETA_B)

NoRawLog == RawRecord({}, <<>>)

NoProbCall ==
  /\ gameLogs = <<>>
  /\ legOptions = DefaultLegOptions
  /\ generatedLegs = <<>>
  /\ probArgs = Undefined
  /\ probResult = NoProbability
  /\ confidence = ""
  /\ rawLog = NoRawLog
  /\ normalizedLog = NoRawLog

NoHostCall ==
  /\ allLogs = <<>>
  /\ activityArgs = <<>>
  /\ playerStatus = <<>>
  /\ activeGameLogs = <<>>
  /\ cacheDir = <<>>
  /\ now = 0
  /\ cacheArgs = <<>>
  /\ cacheResult = <<>>
  /\ lastSet = <<>>
  /\ weekFiles = <<>>
  /\ sampleFile = <<>>
  /\ request = <<>>
  /\ rangeResult = <<>>
  /\ response = <<>>
  /\ probResponse = <<>>

----------------------------------------------------------------------------
(* The caller's data after a call of the core *)

\* mutant: the logs are sorted in place
gameLogsAfterGenerateLegs_InPlace(logs) == sortByDate(logs)

\* generateLegs sorts and slices the copy [...gameLogs]
gameLogsAfterGenerateLegs(logs) == logs

\* normalizeGameLog writes to the copy { ...gameLog }
gameLogAfterNormalize(gameLog) == gameLog

\* generateParlays filters into new arrays and pushes [...current]
candidateLegsAfterGenerateParlays(cands) == cands

\* calculateParlayPenalties only reads the legs
legsAfterCalculateParlayPenalties(ls) == ls

----------------------------------------------------------------------------
(* The calls *)

NoResult == [adjustedProbability |-> NumOne, penalties |-> <<>>]

Init ==
  /\ \E S \in SUBSET (1..Len(LegCatalogue)) :
       Cardinality(S) <= MaxPool /\ candidateLegs = Pool(S)
  /\ options \in OptionSets
  /\ topN = Undefined
  /\ called = "none"
  /\ parlays = <<>>
  /\ topParlays = <<>>
  /\ legs = <<>>
  /\ penaltyResult = NoResult
  /\ NoProbCall
  /\ NoHostCall

CallGenerateParlays ==
  /\ called = "none"
  /\ called' = "generateParlays"
  /\ parlays' = generateParlays(candidateLegs, options)
  /\ candidateLegs' = candidateLegsAfterGenerateParlays(candidateLegs)
  /\ UNCHANGED <<options, topN, topParlays, legs, penaltyResult, probVars, hostVars>>

CallGetTopParlays ==
  /\ called = "none"
  /\ \E n \in {Undefined} \cup {Some(k) : k \in 1..MaxTopN} :
       /\ topN' = n
       /\ topParlays' = getTopParlays(candidateLegs, n, options)
  /\ called' = "getTopParlays"
  /\ UNCHANGED <<candidateLegs, options, parlays, legs, penaltyResult, probVars, hostVars>>

Next == CallGenerateParlays \/ CallGetTopParlays

Spec == Init /\ [][Next]_vars

InitPenalties ==
  /\ candidateLegs = <<>>
  /\ options = [legCount |-> Undefined, minLegProb |-> Undefined,
                singleGame |-> Undefined, gameId |-> Undefined,
                allowSameGame |-> Undefined, allowSameTeamStack |-> Undefined]
  /\ topN = Undefined
  /\ called = "none"
  /\ parlays = <<>>
  /\ topParlays = <<>>
  /\ \E n \in 0..MaxParlayLegs : \E f \in [1..n -> 1..Len(LegCatalogue)] :
       legs = LegList(f)
  /\ penaltyResult = NoResult
  /\ NoProbCall
  /\ NoHostCall

CallCalculateParlayPenalties ==
  /\ called = "none"
  /\ called' = "calculateParlayPenalties"
  /\ penaltyResult' = calculateParlayPenalties(legs)
  /\ legs' = legsAfterCalculateParlayPenalties(legs)
  /\ UNCHANGED <<candidateLegs, options, topN, parlays, topParlays, probVars, hostVars>>

NextPenalties == CallCalculateParlayPenalties

SpecPenalties == InitPenalties /\ [][NextPenalties]_vars

DefaultOptions ==
  [legCount |-> Undefined, minLegProb |-> Undefined, singleGame |-> Undefined,
   gameId |-> Undefined, allowSameGame |-> Undefined, allowSameTeamStack |-> Undefined]

\* Either the logs of a player and the options of generateLegs, or a pool of
\* candidate legs and the leg count of generateParlays
InitLegs ==
  /\ topN = Undefined
  /\ called = "none"
  /\ NoHostCall
  /\ parlays = <<>>
  /\ topParlays = <<>>
  /\ legs = <<>>
  /\ penaltyResult = NoResult
  /\ generatedLegs = <<>>
  /\ probArgs = Undefined
  /\ probResult = NoProbability
  /\ confidence = ""
  /\ rawLog = NoRawLog
  /\ normalizedLog = NoRawLog
  /\ \/ /\ candidateLegs = <<>>
        /\ options = DefaultOptions
        /\ \E S \in SUBSET (1..Len(GameCatalogue)) : \E position \in Positions :
             Cardinality(S) <= MaxLogs /\ gameLogs = LogsOf(S, position)
        /\ legOptions \in LegOptionSets
     \/ /\ gameLogs = <<>>
        /\ legOptions = DefaultLegOptions
        /\ \E S \in SUBSET (1..Len(LegCatalogue)) :
             Cardinality(S) <= MaxPool /\ candidateLegs = Pool(S)
        /\ \E legCount \in {Undefined, Some(2)} :
             options = [DefaultOptions EXCEPT !.legCount = legCount]

CallGenerateLegs ==
  /\ called = "none"
  /\ called' = "generateLegs"
  /\ generatedLegs' = generateLegs("P1", Some("Player One"), gameLogs, legOptions)
  /\ gameLogs' = gameLogsAfterGenerateLegs(gameLogs)
  /\ UNCHANGED <<candidateLegs, options, topN, parlays, topParlays, legs, penaltyResult,
                 legOptions, probArgs, probResult, confidence, rawLog,
                 normalizedLog, hostVars>>

NextLegs == CallGenerateLegs \/ CallGenerateParlays

SpecLegs == InitLegs /\ [][NextLegs]_vars

\* The selected games of a player: games of the catalogue, or a sample of n
\* games with k hits
InitProbability ==
  /\ candidateLegs = <<>>
  /\ options = DefaultOptions
  /\ topN = Undefined
  /\ called = "none"
  /\ NoHostCall
  /\ parlays = <<>>
  /\ topParlays = <<>>
  /\ legs = <<>>
  /\ penaltyResult = NoResult
  /\ generatedLegs = <<>>
  /\ probArgs = Undefined
  /\ probResult = NoProbability
  /\ confidence = ""
  /\ rawLog = NoRawLog
  /\ normalizedLog = NoRawLog
  /\ \/ \E S \in SUBSET (1..Len(GameCatalogue)) :
          Cardinality(S) <= MaxLogs /\ gameLogs = sortByDate(LogsOf(S, "QB"))
     \/ \E n \in 0..MaxSample : \E k \in 0..n : gameLogs = SampleLogs(k, n)
  /\ legOptions \in
       { DefaultLegOptions,
         [DefaultLegOptions EXCEPT !.minProbability = Some(0)],
         [DefaultLegOptions EXCEPT !.minProbability = Some(0), !.minSampleSize = Some(3)] }

CallCalculateProbability ==
  /\ called = "none"
  /\ \E i \in 1..Len(StatTypes) :
       \E j \in 1..Len(STAT_THRESHOLDS[StatTypes[i]]) :
         LET statType == StatTypes[i]
             threshold == STAT_THRESHOLDS[statType][j]
         IN /\ probArgs' = Some([statType |-> statType, threshold |-> threshold])
            /\ probResult' = calculateProbability(gameLogs, statType, threshold,
                                                  DEFAULT_BETA_A, DEFAULT_BETA_B)
  /\ called' = "calculateProbability"
  /\ UNCHANGED <<candidateLegs, options, topN, parlays, topParlays, legs, penaltyResult,
                 gameLogs, legOptions, generatedLegs, confidence, rawLog, normalizedLog, hostVars>>

\* getConfidenceLevel on the smoothed probability just computed
CallGetConfidenceLevel ==
  /\ called = "calculateProbability"
  /\ called' = "getConfidenceLevel"
  /\ confidence' = getConfidenceLevel(probResult.smoothedProb)
  /\ UNCHANGED <<candidateLegs, options, topN, parlays, topParlays, legs, penaltyResult,
                 gameLogs, legOptions, generatedLegs, probArgs, probResult, rawLog,
                 normalizedLog, hostVars>>

NextProbability == CallCalculateProbability \/ CallGetConfidenceLevel \/ CallGenerateLegs

SpecProbability == InitProbability /\ [][NextProbability]_vars

\* A raw record with at most MaxFields statistics keys
InitNormalize ==
  /\ candidateLegs = <<>>
  /\ options = DefaultOptions
  /\ topN = Undefined
  /\ called = "none"
  /\ NoHostCall
  /\ parlays = <<>>
  /\ topParlays = <<>>
  /\ legs = <<>>
  /\ penaltyResult = NoResult
  /\ gameLogs = <<>>
  /\ legOptions = DefaultLegOptions
  /\ generatedLegs = <<>>
  /\ probArgs = Undefined
  /\ probResult = NoProbability
  /\ confidence = ""
  /\ \E S \in SUBSET (1..Len(RawKeys)) :
       /\ Cardinality(S) <= MaxFields
       /\ \E f \in [S -> {"undefined", "null", "zero", "number"}] :
            rawLog = RawRecord(S, f)
  /\ normalizedLog = NoRawLog

CallNormalizeGameLog ==
  /\ called = "none"
  /\ called' = "normalizeGameLog"
  /\ normalizedLog' = normalizeGameLog(rawLog)
  /\ rawLog' = gameLogAfterNormalize(rawLog)
  /\ UNCHANGED <<candidateLegs, options, topN, parlays, topParlays, legs, penaltyResult,
                 gameLogs, legOptions, generatedLegs, probArgs, probResult, confidence,
                 hostVars>>

\* normalizeGameLog on the record it returned
CallNormalizeAgain ==
  /\ called = "normalizeGameLog"
  /\ called' = "normalizeGameLog again"
  /\ rawLog' = normalizedLog
  /\ normalizedLog' = normalizeGameLog(normalizedLog)
  /\ UNCHANGED <<candidateLegs, options, topN, parlays, topParlays, legs, penaltyResult,
                 gameLogs, legOptions, generatedLegs, probArgs, probResult, confidence, hostVars>>

NextNormalize == CallNormalizeGameLog \/ CallNormalizeAgain

SpecNormalize == InitNormalize /\ [][NextNormalize]_vars

----------------------------------------------------------------------------
(* src/lib/cache.ts ('@/lib/player-filter'): the activity filter *)

\* A game log as the activity filter reads it.  team is "" when missing;
\* week, season and snaps are values (a number, NaN, null or undefined);
\* gameDate is the time value of the date string.
ActivityLog(playerId, team, week, season, gameDate, snaps) ==
  [playerId |-> playerId, team |-> team, week |-> week, season |-> season,
   gameDate |-> gameDate, snaps |-> snaps]

\* x === n for a value x and a number n
strictEquals(x, n) == x.kind = "number" /\ x.v = n

getByeWeekTeams(logs, week, season) ==
  LET teamsWithGames ==
        { logs[i].team : i \in { j \in 1..Len(logs) :
            /\ strictEquals(logs[j].week, week)
            /\ strictEquals(logs[j].season, season)
            /\ logs[j].team # "" } }
      allTeams ==
        { logs[i].team : i \in { j \in 1..Len(logs) : logs[j].team # "" } }
  IN { team \in allTeams : team \notin teamsWithGames }

\* snaps !== undefined && snaps !== null && snaps > 0
hasSnaps(log) == log.snaps.kind = "number" /\ log.snaps.v > 0

\* mutant: one of the last n games with snaps is enough
hasSnapsInLastNGames_Some(logs, playerId, n) ==
  LET sortedLogs ==
        slice(sortByDate(SelectSeq(logs, LAMBDA log : log.playerId = playerId)), 0, n)
  IN IF Len(sortedLogs) < n THEN FALSE
     ELSE \E i \in 1..Len(sortedLogs) : hasSnaps(sortedLogs[i])

hasSnapsInLastNGames(logs, playerId, n) ==
  LET sortedLogs ==
        slice(sortByDate(SelectSeq(logs, LAMBDA log : log.playerId = playerId)), 0, n)
  IN IF Len(sortedLogs) < n THEN FALSE
     ELSE \A i \in 1..Len(sortedLogs) : hasSnaps(sortedLogs[i])

\* The PlayerStatus returned.  team is Undefined when the result has no
\* team property or its value is undefined.
isPlayerActive(logs, playerId, currentWeek, season) ==
  LET playerLogs == SelectSeq(logs, LAMBDA log : log.playerId = playerId)
  IN IF Len(playerLogs) = 0
     THEN [playerId |-> playerId, team |-> Undefined, isActive |-> FALSE,
           isOnBye |-> FALSE, hasRecentSnaps |-> FALSE, currentWeek |-> currentWeek]
     ELSE LET team == playerLogs[1].team
              byeWeekTeams == getByeWeekTeams(logs, currentWeek, season)
              isOnBye == IF team # "" THEN team \in byeWeekTeams ELSE FALSE
              hasRecentSnaps == hasSnapsInLastNGames(logs, playerId, 2)
              isActive == ~isOnBye /\ hasRecentSnaps
          IN [playerId |-> playerId,
              team |-> IF team # "" THEN Some(team) ELSE Undefined,
              isActive |-> isActive, isOnBye |-> isOnBye,
              hasRecentSnaps |-> hasRecentSnaps, currentWeek |-> currentWeek]

\* mutant: a player is kept as soon as the team plays
filterActivePlayers_IgnoresSnaps(logs, currentWeek, season) ==
  LET playerIds == { logs[i].playerId : i \in 1..Len(logs) } \ {""}
      activePlayerIds ==
        { playerId \in playerIds :
            ~isPlayerActive(logs, playerId, currentWeek, season).isOnBye }
  IN SelectSeq(logs, LAMBDA log : log.playerId \in activePlayerIds)

filterActivePlayers(logs, currentWeek, season) ==
  LET playerIds == { logs[i].playerId : i \in 1..Len(logs) } \ {""}
      activePlayerIds ==
        { playerId \in playerIds :
            isPlayerActive(logs, playerId, currentWeek, season).isActive }
  IN SelectSeq(logs, LAMBDA log : log.playerId \in activePlayerIds)

\* The logs the inputs of the activity filter are drawn from, not in date
\* order: a player with logs for two teams, a player with a log without
\* team, logs without playerId, a log of another season.
ActivityCatalogue ==
  << ActivityLog("A", "KC",  NumberValue(3), NumberValue(2024), 3, NumberValue(40)),
     ActivityLog("A", "KC",  NumberValue(2), NumberValue(2024), 2, NumberValue(30)),
     ActivityLog("A", "DEN", NumberValue(2), NumberValue(2024), 2, NumberValue(0)),
     ActivityLog("A", "KC",  NumberValue(1), NumberValue(2024), 1, NaNValue),
     ActivityLog("B", "",    NumberValue(3), NumberValue(2024), 3, NumberValue(50)),
     ActivityLog("B", "LV",  NumberValue(2), NumberValue(2024), 2, NumberValue(20)),
     ActivityLog("B", "LV",  UndefinedValue, UndefinedValue,    1, UndefinedValue),
     ActivityLog("",  "LV",  NumberValue(3), NumberValue(2024), 3, NumberValue(5)),
     ActivityLog("",  "LV",  NumberValue(2), NumberValue(2024), 2, NumberValue(7)),
     ActivityLog("C", "DEN", NumberValue(3), NumberValue(2023), 3, NumberValue(9)),
     ActivityLog("C", "DEN", NumberValue(3), NumberValue(2024), 4, NullValue) >>

Reverse(s) == [i \in 1..Len(s) |-> s[Len(s) + 1 - i]]

\* the catalogue entries of the index set S, in catalogue order or in the
\* opposite order
ActivityLogs(S, reversed) ==
  LET order == SeqOfSet(S)
      logs == [i \in 1..Len(order) |-> ActivityCatalogue[order[i]]]
  IN IF reversed THEN Reverse(logs) ELSE logs

MaxActivityLogs == 4

PlayerIds == {"A", "B", "C", "", "Z"}

CurrentWeeks == {2, 3}

CurrentSeason == 2024

InitActivity ==
  /\ candidateLegs = <<>>
  /\ options = DefaultOptions
  /\ topN = Undefined
  /\ called = "none"
  /\ parlays = <<>>
  /\ topParlays = <<>>
  /\ legs = <<>>
  /\ penaltyResult = NoResult
  /\ NoProbCall
  /\ \E S \in SUBSET (1..Len(ActivityCatalogue)) : \E reversed \in BOOLEAN :
       Cardinality(S) <= MaxActivityLogs /\ allLogs = ActivityLogs(S, reversed)
  /\ activityArgs = <<>>
  /\ playerStatus = <<>>
  /\ activeGameLogs = <<>>
  /\ cacheDir = <<>>
  /\ now = 0
  /\ cacheArgs = <<>>
  /\ cacheResult = <<>>
  /\ lastSet = <<>>
  /\ weekFiles = <<>>
  /\ sampleFile = <<>>
  /\ request = <<>>
  /\ rangeResult = <<>>
  /\ response = <<>>
  /\ probResponse = <<>>

CallIsPlayerActive ==
  /\ called = "none"
  /\ \E playerId \in PlayerIds : \E week \in CurrentWeeks :
       /\ activityArgs' = [playerId |-> playerId, week |-> week, season |-> CurrentSeason]
       /\ playerStatus' = isPlayerActive(allLogs, playerId, week, CurrentSeason)
  /\ called' = "isPlayerActive"
  /\ UNCHANGED <<candidateLegs, options, topN, parlays, topParlays, legs, penaltyResult,
                 probVars, allLogs, activeGameLogs, cacheVars, routeVars>>

CallFilterActivePlayers ==
  /\ called = "none"
  /\ \E week \in CurrentWeeks :
       /\ activityArgs' = [playerId |-> "", week |-> week, season |-> CurrentSeason]
       /\ activeGameLogs' = filterActivePlayers(allLogs, week, CurrentSeason)
  /\ called' = "filterActivePlayers"
  /\ UNCHANGED <<candidateLegs, options, topN, parlays, topParlays, legs, penaltyResult,
                 probVars, allLogs, playerStatus, cacheVars, routeVars>>

NextActivity == CallIsPlayerActive \/ CallFilterActivePlayers

SpecActivity == InitActivity /\ [][NextActivity]_vars

----------------------------------------------------------------------------
(* src/app/api/parlay-prob/route.ts: POST /api/parlay-prob *)

\* The body the page sends for a leg (calculateManualParlay): the threshold
\* is not carried by the legs of the model.
IncomingLeg(leg) ==
  [playerId |-> leg.playerId, gameId |-> leg.gameId, team |-> leg.team,
   market |-> leg.statType, probability |-> leg.smoothedProb]

\* marketToStatType[incomingLeg.market] || 'pass_yards'
marketToStatType(market) ==
  IF market \in {"pass_yards", "rush_yards", "rec_yards", "receptions", "pass_tds"}
  THEN market
  ELSE "pass_yards"

\* the position inferred from the statistic
inferredPosition(statType) ==
  IF statType = "pass_yards" \/ statType = "pass_tds" THEN "QB"
  ELSE IF statType = "rec_yards" \/ statType = "receptions" THEN "WR"
  ELSE IF statType = "rush_yards" THEN "RB"
  ELSE ""

\* mutant: the position is not inferred
mapIncomingLegToLeg_NoPosition(incomingLeg) ==
  LET statType == marketToStatType(incomingLeg.market)
  IN Leg(incomingLeg.playerId, statType, incomingLeg.probability,
         incomingLeg.gameId, "", incomingLeg.team, "")

\* the Leg built from an incoming leg: it has no gameDate
mapIncomingLegToLeg(incomingLeg) ==
  LET statType == marketToStatType(incomingLeg.market)
  IN Leg(incomingLeg.playerId, statType, incomingLeg.probability,
         incomingLeg.gameId, "", incomingLeg.team, inferredPosition(statType))

calculateBaseProbability(ls) == calculateParlayProbability(ls)

\* the response to a body with the given incoming legs
postParlayProb(bodyLegs) ==
  IF Len(bodyLegs) = 0
  THEN [status |-> 400, estProbability |-> Undefined, baseProbability |-> Undefined,
        penaltyBreakdown |-> Undefined]
  ELSE LET mapped == WithRefs([i \in 1..Len(bodyLegs) |-> mapIncomingLegToLeg(bodyLegs[i])])
           baseProbability == calculateBaseProbability(mapped)
           r == calculateParlayPenalties(mapped)
       IN [status |-> 200,
           estProbability |-> Some(r.adjustedProbability),
           baseProbability |-> Some(baseProbability),
           penaltyBreakdown |->
             IF Len(r.penalties) > 0 THEN Some(r.penalties) ELSE Undefined]

----------------------------------------------------------------------------
(* The calls of the core and of POST /api/parlay-prob *)

MaxCoreInputs == 3

\* One input of the core: the logs of a player, a pool of candidate legs,
\* the legs of a parlay, or a raw record
InitCore ==
  /\ topN = Undefined
  /\ called = "none"
  /\ NoHostCall
  /\ parlays = <<>>
  /\ topParlays = <<>>
  /\ penaltyResult = NoResult
  /\ generatedLegs = <<>>
  /\ probArgs = Undefined
  /\ probResult = NoProbability
  /\ confidence = ""
  /\ normalizedLog = NoRawLog
  /\ \/ /\ \E S \in SUBSET (1..Len(GameCatalogue)) : \E position \in {"QB", "RB"} :
             Cardinality(S) <= MaxCoreInputs /\ gameLogs = LogsOf(S, position)
        /\ legOptions \in { DefaultLegOptions,
                            [DefaultLegOptions EXCEPT !.lastN = Some(2)] }
        /\ candidateLegs = <<>>
        /\ options = DefaultOptions
        /\ legs = <<>>
        /\ rawLog = NoRawLog
     \/ /\ \E S \in SUBSET (1..Len(LegCatalogue)) :
             Cardinality(S) <= MaxCoreInputs /\ candidateLegs = Pool(S)
        /\ options \in
             { [DefaultOptions EXCEPT !.legCount = Some(2)],
               [DefaultOptions EXCEPT !.legCount = Some(2), !.minLegProb = Some(15),
                                      !.allowSameGame = Some(TRUE),
                                      !.allowSameTeamStack = Some(TRUE)],
               [DefaultOptions EXCEPT !.legCount = Some(2), !.minLegProb = Some(15),
                                      !.allowSameGame = Some(FALSE)],
               [DefaultOptions EXCEPT !.legCount = Some(2), !.minLegProb = Some(15),
                                      !.singleGame = Some(TRUE),
                                      !.allowSameGame = Some(FALSE)] }
        /\ gameLogs = <<>>
        /\ legOptions = DefaultLegOptions
        /\ legs = <<>>
        /\ rawLog = NoRawLog
     \/ /\ \E n \in 0..MaxCoreInputs : \E f \in [1..n -> 1..Len(LegCatalogue)] :
             legs = LegList(f)
        /\ gameLogs = <<>>
        /\ legOptions = DefaultLegOptions
        /\ candidateLegs = <<>>
        /\ options = DefaultOptions
        /\ rawLog = NoRawLog
     \/ /\ \E S \in SUBSET (1..Len(RawKeys)) :
             /\ Cardinality(S) <= MaxCoreInputs
             /\ \E f \in [S -> {"null", "number"}] : rawLog = RawRecord(S, f)
        /\ gameLogs = <<>>
        /\ legOptions = DefaultLegOptions
        /\ candidateLegs = <<>>
        /\ options = DefaultOptions
        /\ legs = <<>>

\* the page posts the legs whose penalties were computed
CallPostParlayProb ==
  /\ called = "calculateParlayPenalties"
  /\ called' = "POST /api/parlay-prob"
  /\ probResponse' = postParlayProb([i \in 1..Len(legs) |-> IncomingLeg(legs[i])])
  /\ UNCHANGED <<candidateLegs, options, topN, parlays, topParlays, legs, penaltyResult,
                 probVars, activityVars, cacheVars, weekFiles, sampleFile, request,
                 rangeResult, response>>

NextCore ==
  \/ CallGenerateLegs
  \/ CallNormalizeGameLog
  \/ CallGenerateParlays
  \/ CallCalculateParlayPenalties
  \/ CallPostParlayProb

SpecCore == InitCore /\ [][NextCore]_vars

----------------------------------------------------------------------------
(* src/lib/cache.ts: the file cache *)

\* the keys the calls are made with
CacheKeys == {"a:b", "a_b", "k"}

\* key.replace(/[^a-zA-Z0-9-_]/g, '_') on the keys of the model
sanitizedKey(key) ==
  CASE key = "a:b" -> "a_b"
    [] OTHER -> key

\* the file of a key, relative to CACHE_DIR
getCacheFilePath(key) == sanitizedKey(key) \o ".json"

CacheFiles == { getCacheFilePath(key) : key \in CacheKeys }

\* JSON.parse(JSON.stringify(x)) of a value: NaN is written as null
jsonValue(x) == IF x.kind = "NaN" THEN NullValue ELSE x

\* the CacheEntry read back from the file that setCache writes
writtenEntry(data, expiresAt) == [data |-> jsonValue(data), expiresAt |-> expiresAt]

\* fs.existsSync(filePath)
existsSync(dir, filePath) == dir[filePath] # Undefined

\* fs.unlinkSync(filePath)
unlinkSync(dir, filePath) == [dir EXCEPT ![filePath] = Undefined]

\* getCache: the value returned (null when there is no file or the entry
\* has expired) and the directory after the call
getCache(dir, key, clock) ==
  LET filePath == getCacheFilePath(key)
  IN IF ~existsSync(dir, filePath)
     THEN [value |-> NullValue, dir |-> dir]
     ELSE LET entry == dir[filePath][1]
          IN IF clock > entry.expiresAt
             THEN [value |-> NullValue, dir |-> unlinkSync(dir, filePath)]
             ELSE [value |-> entry.data, dir |-> dir]

\* setCache: the directory after the call
setCache(dir, key, data, ttlMs, clock) ==
  [dir EXCEPT ![getCacheFilePath(key)] = Some(writtenEntry(data, clock + ttlMs))]

\* deleteCache: the directory after the call
deleteCache(dir, key) ==
  IF existsSync(dir, getCacheFilePath(key))
  THEN unlinkSync(dir, getCacheFilePath(key))
  ELSE dir

\* clearCache: every .json file of the directory is removed
clearCache(dir) == [filePath \in DOMAIN dir |-> Undefined]

MaxClock == 3

CacheData == {NumberValue(1), NumberValue(2)}

CacheTTLs == {0, 1, 2}

InitCache ==
  /\ candidateLegs = <<>>
  /\ options = DefaultOptions
  /\ topN = Undefined
  /\ called = "none"
  /\ parlays = <<>>
  /\ topParlays = <<>>
  /\ legs = <<>>
  /\ penaltyResult = NoResult
  /\ NoProbCall
  /\ allLogs = <<>>
  /\ activityArgs = <<>>
  /\ playerStatus = <<>>
  /\ activeGameLogs = <<>>
  /\ cacheDir = [filePath \in CacheFiles |-> Undefined]
  /\ now = 0
  /\ cacheArgs = <<>>
  /\ cacheResult = <<>>
  /\ lastSet = [key \in CacheKeys |-> Undefined]
  /\ weekFiles = <<>>
  /\ sampleFile = <<>>
  /\ request = <<>>
  /\ rangeResult = <<>>
  /\ response = <<>>
  /\ probResponse = <<>>

\* Date.now() advances between two calls
Tick ==
  /\ now < MaxClock
  /\ now' = now + 1
  /\ called' = "tick"
  /\ UNCHANGED <<candidateLegs, options, topN, parlays, topParlays, legs, penaltyResult,
                 probVars, activityVars, cacheDir, cacheArgs, cacheResult, lastSet,
                 routeVars>>

CallSetCache ==
  /\ \E key \in CacheKeys : \E data \in CacheData : \E ttlMs \in CacheTTLs :
       /\ cacheDir' = setCache(cacheDir, key, data, ttlMs, now)
       /\ cacheArgs' = Some(key)
       /\ lastSet' = [lastSet EXCEPT ![key] = Some([data |-> data, expiresAt |-> now + ttlMs])]
  /\ called' = "setCache"
  /\ cacheResult' = <<>>
  /\ UNCHANGED <<candidateLegs, options, topN, parlays, topParlays, legs, penaltyResult,
                 probVars, activityVars, now, routeVars>>

CallGetCache ==
  /\ \E key \in CacheKeys :
       /\ cacheDir' = getCache(cacheDir, key, now).dir
       /\ cacheResult' = Some(getCache(cacheDir, key, now).value)
       /\ cacheArgs' = Some(key)
  /\ called' = "getCache"
  /\ UNCHANGED <<candidateLegs, options, topN, parlays, topParlays, legs, penaltyResult,
                 probVars, activityVars, now, lastSet, routeVars>>

CallDeleteCache ==
  /\ \E key \in CacheKeys :
       /\ cacheDir' = deleteCache(cacheDir, key)
       /\ cacheArgs' = Some(key)
       /\ lastSet' = [lastSet EXCEPT ![key] = Undefined]
  /\ called' = "deleteCache"
  /\ cacheResult' = <<>>
  /\ UNCHANGED <<candidateLegs, options, topN, parlays, topParlays, legs, penaltyResult,
                 probVars, activityVars, now, routeVars>>

CallClearCache ==
  /\ cacheDir' = clearCache(cacheDir)
  /\ cacheArgs' = <<>>
  /\ lastSet' = [key \in CacheKeys |-> Undefined]
  /\ called' = "clearCache"
  /\ cacheResult' = <<>>
  /\ UNCHANGED <<candidateLegs, options, topN, parlays, topParlays, legs, penaltyResult,
                 probVars, activityVars, now, routeVars>>

NextCache == Tick \/ CallSetCache \/ CallGetCache \/ CallDeleteCache \/ CallClearCache

SpecCache == InitCache /\ [][NextCache]_vars

----------------------------------------------------------------------------
(* src/lib/nfl-data.ts, src/lib/loadGameLogs.ts: the game logs on disk.
   weekFiles[week] is the array of data/cache/gamelogs_<season>_<week>.json
   of the season CurrentSeason, Undefined when the file does not exist;
   sampleFile is the array of data/gamelogs.sample.json, Undefined when the
   file does not exist. *)

\* loadCachedGamelogs: the array in the file of the week, null (Undefined)
\* without the file
loadCachedGamelogs(files, season, week) ==
  IF season = CurrentSeason /\ week \in DOMAIN files THEN files[week] ELSE Undefined

\* loadGameLogs(season, week): the cached logs of the week when there are
\* some, the sample file otherwise; thrown when the sample file is missing
\* or holds no log
loadGameLogs(files, sample, season, week) ==
  LET cachedLogs == loadCachedGamelogs(files, season, week)
  IN IF cachedLogs # Undefined /\ Len(cachedLogs[1]) > 0
     THEN [thrown |-> FALSE, gameLogs |-> cachedLogs[1],
           filePathUsed |-> "cache", fileExists |-> TRUE]
     ELSE IF sample = Undefined
     THEN [thrown |-> TRUE, gameLogs |-> <<>>,
           filePathUsed |-> "gamelogs.sample.json", fileExists |-> FALSE]
     ELSE IF Len(sample[1]) = 0
     THEN [thrown |-> TRUE, gameLogs |-> <<>>,
           filePathUsed |-> "gamelogs.sample.json", fileExists |-> TRUE]
     ELSE [thrown |-> FALSE, gameLogs |-> sample[1],
           filePathUsed |-> "gamelogs.sample.json", fileExists |-> TRUE]

\* the loop of loadGameLogsForRange over the weeks week..endWeek
RECURSIVE rangeLoop(_, _, _, _, _, _)
rangeLoop(files, sample, season, week, endWeek, acc) ==
  IF week > endWeek THEN acc
  ELSE LET result == loadGameLogs(files, sample, season, week)
           paths == [filePathUsed |-> Append(acc.filePathUsed, result.filePathUsed),
                     fileExists |-> Append(acc.fileExists, result.fileExists)]
       IN rangeLoop(files, sample, season, week + 1, endWeek,
            IF result.thrown
            THEN [gameLogs |-> acc.gameLogs] @@ paths
            ELSE IF Len(result.gameLogs) > 0
            THEN [gameLogs |-> acc.gameLogs \o result.gameLogs] @@ paths
            ELSE acc)

loadGameLogsForRange(files, sample, season, startWeek, endWeek) ==
  rangeLoop(files, sample, season, startWeek, endWeek,
            [gameLogs |-> <<>>, filePathUsed |-> <<>>, fileExists |-> <<>>])

----------------------------------------------------------------------------
(* src/unnamed/part_002: GET /api/legs without playerId (bulk mode) *)

normalizeGameLogs(logs) == [i \in 1..Len(logs) |-> normalizeGameLog(logs[i])]

\* the filter of gamesUpToWeek: a log without week is kept
upToWeek(log, currentWeek, season) ==
  IF isNullish(log.week) THEN TRUE
  ELSE log.week.kind = "number" /\ log.week.v <= currentWeek
       /\ strictEquals(log.season, season)

\* the keys of playerMap in insertion order: logs without playerId are
\* skipped
playerMapKeys(logs) ==
  MapKeys([i \in 1..Len(SelectSeq(logs, LAMBDA log : log.playerId # "")) |->
             SelectSeq(logs, LAMBDA log : log.playerId # "")[i].playerId])

\* playerMap.get(playerId): name and position of the player's first log,
\* and the player's logs in order
playerMapGet(logs, playerId) ==
  LET own == SelectSeq(logs, LAMBDA log : log.playerId = playerId)
  IN [name |-> own[1].playerName, position |-> own[1].position, gameLogs |-> own]

\* a.week ?? 0
weekOrZero(log) == IF isNullish(log.week) THEN 0 ELSE log.week.v

\* the comparator of the sort of a player's logs: by date, most recent
\* first, then by week
compareByDateThenWeek(a, b) ==
  IF b.gameDate # a.gameDate THEN b.gameDate - a.gameDate
  ELSE weekOrZero(b) - weekOrZero(a)

RECURSIVE insertByDateThenWeek(_, _)
insertByDateThenWeek(s, x) ==
  IF s = <<>> THEN <<x>>
  ELSE IF compareByDateThenWeek(Head(s), x) > 0 THEN <<x>> \o s
  ELSE <<Head(s)>> \o insertByDateThenWeek(Tail(s), x)

RECURSIVE sortByDateThenWeek(_)
sortByDateThenWeek(s) ==
  IF s = <<>> THEN <<>>
  ELSE insertByDateThenWeek(sortByDateThenWeek(SubSeq(s, 1, Len(s) - 1)), s[Len(s)])

\* minSampleSize of the route
ROUTE_MIN_SAMPLE_SIZE == 4

\* lastN || 8
lastNValueOf(req) == IF req.lastN = Undefined \/ req.lastN = Some(0) THEN 8 ELSE req.lastN[1]

\* minProbParam ? parseFloat(minProbParam) : 0.70, in hundredths
minProbOf(req) == OrElse(req.minProb, 70)

\* the keys of playerMapWithLastN: the players with minSampleSize games or
\* more among their lastNValue most recent ones
playersWithLastN(logs, lastNValue) ==
  SelectSeq(playerMapKeys(logs),
            LAMBDA pid : Len(slice(sortByDateThenWeek(playerMapGet(logs, pid).gameLogs),
                                   0, lastNValue)) >= ROUTE_MIN_SAMPLE_SIZE)

\* the players of playerMapWithLastN that pass the filter on positions
playersOfPositions(logs, lastNValue, positionsFilter) ==
  SelectSeq(playersWithLastN(logs, lastNValue),
            LAMBDA pid :
              \/ positionsFilter = Undefined
              \/ playerMapGet(logs, pid).position = ""
              \/ toUpperCase(playerMapGet(logs, pid).position) \in positionsFilter[1])

\* generateLegs(pid, name, lastNGames, actualGameCount, minProb, minSampleSize)
playerLegsOf(logs, pid, lastNValue, minProb) ==
  LET playerData == playerMapGet(logs, pid)
      lastNGames == slice(sortByDateThenWeek(playerData.gameLogs), 0, lastNValue)
  IN generateLegs(pid, playerData.name, lastNGames,
                  [lastN |-> Some(Len(lastNGames)), minProbability |-> Some(minProb),
                   minSampleSize |-> Some(ROUTE_MIN_SAMPLE_SIZE),
                   minTouchesPerGame |-> Undefined])

\* allLegs.push(...playerLegs) over the players
RECURSIVE legsOfPlayers(_, _, _, _)
legsOfPlayers(logs, pids, lastNValue, minProb) ==
  IF pids = <<>> THEN <<>>
  ELSE playerLegsOf(logs, Head(pids), lastNValue, minProb)
         \o legsOfPlayers(logs, Tail(pids), lastNValue, minProb)

RECURSIVE insertByProb(_, _)
insertByProb(s, x) ==
  IF s = <<>> THEN <<x>>
  ELSE IF RatioLess(Head(s).smoothedProb, x.smoothedProb) THEN <<x>> \o s
  ELSE <<Head(s)>> \o insertByProb(Tail(s), x)

\* sort((a, b) => b.smoothedProb - a.smoothedProb), a stable sort
RECURSIVE sortByProb(_)
sortByProb(s) ==
  IF s = <<>> THEN <<>>
  ELSE insertByProb(sortByProb(SubSeq(s, 1, Len(s) - 1)), s[Len(s)])

\* the fields of a leg of the response
formatLeg(leg) ==
  [playerId |-> leg.playerId, playerName |-> leg.playerName, position |-> leg.position,
   team |-> leg.team, gameId |-> leg.gameId, statType |-> leg.statType,
   threshold |-> leg.threshold, smoothedProb |-> leg.smoothedProb,
   rawProb |-> leg.rawProb, confidence |-> leg.confidence,
   sampleSize |-> leg.sampleSize, lastNValues |-> leg.lastNGameValues]

\* the fields of a near miss of the response
formatNearMiss(leg) ==
  [playerId |-> leg.playerId, playerName |-> leg.playerName, position |-> leg.position,
   team |-> leg.team, gameId |-> leg.gameId, statType |-> leg.statType,
   threshold |-> leg.threshold, smoothedProb |-> leg.smoothedProb,
   rawProb |-> leg.rawProb, confidence |-> leg.confidence,
   sampleSize |-> leg.sampleSize]

\* rangeGameLogs: the weeks startWeek..currentWeek when there are two weeks
\* or more, the active logs of the current week otherwise
rangeGameLogsOf(files, sample, req, active) ==
  LET startWeek == IF req.week - lastNValueOf(req) * 2 > 1
                   THEN req.week - lastNValueOf(req) * 2 ELSE 1
  IN IF startWeek < req.week
     THEN normalizeGameLogs(
            loadGameLogsForRange(files, sample, req.season, startWeek, req.week).gameLogs)
     ELSE active

\* the response of the bulk mode, together with the route's gameLogs and
\* activeGameLogs
getLegs(files, sample, req) ==
  LET result == loadGameLogs(files, sample, req.season, req.week)
      loaded == normalizeGameLogs(result.gameLogs)
      active == filterActivePlayers(loaded, req.week, req.season)
      gamesUpToWeek == SelectSeq(rangeGameLogsOf(files, sample, req, active),
                                 LAMBDA log : upToWeek(log, req.week, req.season))
      pids == playersOfPositions(gamesUpToWeek, lastNValueOf(req), req.positions)
      allLegs == legsOfPlayers(gamesUpToWeek, pids, lastNValueOf(req), minProbOf(req))
      allLegsUnfiltered == legsOfPlayers(gamesUpToWeek, pids, lastNValueOf(req), 0)
      filteredLegs ==
        SelectSeq(allLegs,
                  LAMBDA leg : RatioGeq(leg.smoothedProb, Hundredths(minProbOf(req))))
      legsBelowThreshold ==
        slice(sortByProb(SelectSeq(allLegsUnfiltered,
                LAMBDA leg : RatioLess(leg.smoothedProb, Hundredths(minProbOf(req))))),
              0, 20)
  IN IF result.thrown
     THEN [status |-> 500, legs |-> <<>>, nearMisses |-> Undefined,
           gameLogs |-> <<>>, activeGameLogs |-> <<>>]
     ELSE IF Len(loaded) = 0
     THEN [status |-> 400, legs |-> <<>>, nearMisses |-> Undefined,
           gameLogs |-> <<>>, activeGameLogs |-> <<>>]
     ELSE [status |-> 200,
           legs |-> [i \in 1..Len(filteredLegs) |-> formatLeg(filteredLegs[i])],
           nearMisses |->
             IF Len(legsBelowThreshold) > 0
             THEN Some([i \in 1..Len(legsBelowThreshold) |->
                          formatNearMiss(legsBelowThreshold[i])])
             ELSE Undefined,
           gameLogs |-> loaded, activeGameLogs |-> active]

----------------------------------------------------------------------------
(* The calls of the loader and of GET /api/legs *)

MaxWeek == 5

\* a raw game log as the cache files hold it: the standard statistics in
\* stats, the alternate key passing_yards, no other alternate key.  The
\* game of week w is played on day w.
RouteLog(playerId, position, team, week, gameDate, snaps, stats, passing_yards) ==
  [GameLog(gameDate, "", team, "", stats) EXCEPT !.playerId = playerId,
                                                 !.position = position]
    @@ [playerName |-> Some(playerId), week |-> week,
        season |-> NumberValue(CurrentSeason), snaps |-> snaps,
        passing_yards |-> passing_yards, rushing_yards |-> AbsentValue,
        receiving_yards |-> AbsentValue, rec |-> AbsentValue,
        passing_tds |-> AbsentValue, pass_td |-> AbsentValue]

\* a quarterback who passes for 200 yards every week, recorded under the
\* alternate key
QuarterbackLog(week) ==
  RouteLog("QB1", "QB", "KC", NumberValue(week), week, NumberValue(60),
           <<AbsentValue, NumberValue(0), AbsentValue, AbsentValue, NumberValue(1),
             NumberValue(2), AbsentValue>>,
           NumberValue(200))

\* a running back who rushes 10 times for 20 yards every week
RunningBackLog(week) ==
  RouteLog("RB1", "rb", "KC", NumberValue(week), week, NumberValue(30),
           <<NumberValue(0), NumberValue(20), NumberValue(5), NumberValue(1),
             NullValue, NumberValue(10), NumberValue(1)>>,
           AbsentValue)

\* the content of the cache file of a week: no file, the quarterback, or
\* the quarterback and the running back
WeekFile(week, content) ==
  CASE content = 0 -> Undefined
    [] content = 1 -> Some(<<QuarterbackLog(week)>>)
    [] OTHER -> Some(<<QuarterbackLog(week), RunningBackLog(week)>>)

\* a receiver of the sample file: 30 yards on 3 receptions a game
ReceiverLog(week, gameDate) ==
  RouteLog("WR1", "WR", "LV", week, gameDate, NumberValue(40),
           <<NumberValue(0), NumberValue(0), NumberValue(30), NumberValue(3),
             NumberValue(0), NumberValue(0), NumberValue(5)>>,
           AbsentValue)

\* data/gamelogs.sample.json: four games of the receiver, the last one of
\* week 1, the others without week
SampleFileLogs ==
  <<ReceiverLog(NumberValue(1), 4), ReceiverLog(UndefinedValue, 3),
    ReceiverLog(UndefinedValue, 2), ReceiverLog(UndefinedValue, 1)>>

SampleFiles == {Undefined, Some(<<>>), Some(SampleFileLogs)}

\* the query parameters lastN, minProb and positions of a request
RequestParameters ==
  { [lastN |-> Undefined, minProb |-> Undefined, positions |-> Undefined],
    [lastN |-> Some(1), minProb |-> Undefined, positions |-> Undefined],
    [lastN |-> Undefined, minProb |-> Some(30), positions |-> Some({"QB", "WR"})] }

InitRoute ==
  /\ candidateLegs = <<>>
  /\ options = DefaultOptions
  /\ topN = Undefined
  /\ called = "none"
  /\ parlays = <<>>
  /\ topParlays = <<>>
  /\ legs = <<>>
  /\ penaltyResult = NoResult
  /\ NoProbCall
  /\ allLogs = <<>>
  /\ activityArgs = <<>>
  /\ playerStatus = <<>>
  /\ activeGameLogs = <<>>
  /\ cacheDir = <<>>
  /\ now = 0
  /\ cacheArgs = <<>>
  /\ cacheResult = <<>>
  /\ lastSet = <<>>
  /\ \E content \in [1..MaxWeek -> 0..2] :
       weekFiles = [week \in 1..MaxWeek |-> WeekFile(week, content[week])]
  /\ sampleFile \in SampleFiles
  /\ request = <<>>
  /\ rangeResult = <<>>
  /\ response = <<>>
  /\ probResponse = <<>>

CallLoadGameLogsForRange ==
  /\ called = "none"
  /\ \E startWeek \in 1..MaxWeek : \E endWeek \in 1..MaxWeek :
       /\ request' = [season |-> CurrentSeason, startWeek |-> startWeek,
                      endWeek |-> endWeek]
       /\ rangeResult' = loadGameLogsForRange(weekFiles, sampleFile, CurrentSeason,
                                              startWeek, endWeek)
  /\ called' = "loadGameLogsForRange"
  /\ UNCHANGED <<candidateLegs, options, topN, parlays, topParlays, legs, penaltyResult,
                 probVars, activityVars, cacheVars, weekFiles, sampleFile, response,
                 probResponse>>

CallGetLegs ==
  /\ called = "none"
  /\ \E week \in 1..MaxWeek : \E parameters \in RequestParameters :
       LET req == [week |-> week, season |-> CurrentSeason] @@ parameters
           result == getLegs(weekFiles, sampleFile, req)
       IN /\ request' = req
          /\ response' = [status |-> result.status, legs |-> result.legs,
                          nearMisses |-> result.nearMisses]
          /\ allLogs' = result.gameLogs
          /\ activeGameLogs' = result.activeGameLogs
          /\ activityArgs' = [playerId |-> "", week |-> week, season |-> CurrentSeason]
  /\ called' = "GET /api/legs"
  /\ UNCHANGED <<candidateLegs, options, topN, parlays, topParlays, legs, penaltyResult,
                 probVars, playerStatus, cacheVars, weekFiles, sampleFile, rangeResult,
                 probResponse>>

NextRoute == CallLoadGameLogsForRange \/ CallGetLegs

SpecRoute == InitRoute /\ [][NextRoute]_vars

----------------------------------------------------------------------------
(* Vocabulary of the properties (section 4.4 and 4.5 of the specification) *)

Returned == called = "generateParlays"

LegSet(parlay) == {parlay.legs[i] : i \in 1..Len(parlay.legs)}

DistinctPlayers(S) == \A a \in S : \A b \in S : a.playerId = b.playerId => a = b

\* gameId, falling back to gameDate, then to "unknown"
GameIdent(leg) ==
  IF leg.gameId # "" THEN leg.gameId
  ELSE IF leg.gameDate # "" THEN leg.gameDate ELSE "unknown"

SharesGame(S) ==
  \E a \in S : \E b \in S : a # b /\ GameIdent(a) = GameIdent(b)

SharesKnownGame(S) ==
  \E a \in S : \E b \in S :
    a # b /\ GameIdent(a) = GameIdent(b) /\ GameIdent(a) # "unknown"

\* a quarterback's passing-yards leg and a same-team receiver's or tight
\* end's receiving-yards leg
StackPair(a, b) ==
  /\ a.team # "" /\ a.team = b.team
  /\ a.statType = "pass_yards" /\ toUpperCase(a.position) = "QB"
  /\ b.statType = "rec_yards" /\ toUpperCase(b.position) \in {"WR", "TE"}

HasStackPair(S) == \E a \in S : \E b \in S : StackPair(a, b)

\* the leg count after clamping to 2..8, 3 when none is requested
ClampedLegCount ==
  IF options.legCount = Undefined THEN 3
  ELSE IF options.legCount[1] < 2 THEN 2
  ELSE IF options.legCount[1] > 8 THEN 8 ELSE options.legCount[1]

SingleGameRequested == options.singleGame = Some(TRUE)

\* single-game mode: singleGame is true and a gameId is given
SingleGameMode == SingleGameRequested /\ options.gameId # Undefined

SameGameAllowed == SingleGameRequested \/ options.allowSameGame = Some(TRUE)

StackAllowed == options.allowSameTeamStack = Some(TRUE)

\* the legs that pass the filters
EligibleLegs ==
  { leg \in {candidateLegs[i] : i \in 1..Len(candidateLegs)} :
      /\ leg.smoothedProb >= (IF options.minLegProb = Undefined THEN 16
                              ELSE options.minLegProb[1])
      /\ SingleGameMode => Some(leg.gameId) = options.gameId }

\* the validity rules of a combination
ValidSet(S) ==
  /\ Cardinality(S) = ClampedLegCount
  /\ DistinctPlayers(S)
  /\ SameGameAllowed \/ ~SharesGame(S)
  /\ StackAllowed \/ ~HasStackPair(S)

Combinations == { S \in SUBSET EligibleLegs : Cardinality(S) = ClampedLegCount }

HasPenalty(parlay, type) ==
  /\ parlay.penaltyBreakdown # Undefined
  /\ \E k \in 1..Len(parlay.penaltyBreakdown[1]) :
       parlay.penaltyBreakdown[1][k].type = type

----------------------------------------------------------------------------
(* C1 *)

\* C1 as stated: every parlay returned by generateParlays has pairwise
\* distinct playerIds and exactly options.legCount legs.
C1_RequestedLegCount ==
  Returned =>
    \A i \in 1..Len(parlays) :
      /\ DistinctPlayers(LegSet(parlays[i]))
      /\ Cardinality(LegSet(parlays[i])) = Len(parlays[i].legs)
      /\ options.legCount # Undefined => Len(parlays[i].legs) = options.legCount[1]

\* C1 (amended): every parlay returned by generateParlays has pairwise
\* distinct playerIds and exactly as many legs as options.legCount clamped
\* to 2..8 (3 when legCount is omitted).
C1_DistinctPlayersClampedCount ==
  Returned =>
    \A i \in 1..Len(parlays) :
      /\ DistinctPlayers(LegSet(parlays[i]))
      /\ Cardinality(LegSet(parlays[i])) = Len(parlays[i].legs)
      /\ Len(parlays[i].legs) = ClampedLegCount

\* a call that returned parlays although two eligible legs belong to one
\* player and the requested count is below the clamp
C1_Witness ==
  /\ Returned
  /\ parlays # <<>>
  /\ options.legCount = Some(1)
  /\ ~DistinctPlayers(EligibleLegs)

----------------------------------------------------------------------------
(* C2 *)

\* C2 as stated: called with allowSameGame=false, no returned parlay has two
\* legs that share a game identifier other than "unknown".
C2_AllowSameGameFalse ==
  (Returned /\ options.allowSameGame = Some(FALSE)) =>
    \A i \in 1..Len(parlays) : ~SharesKnownGame(LegSet(parlays[i]))

\* C2 (amended): called with allowSameGame=false and singleGame not true, no
\* returned parlay has two legs that share a game identifier other than
\* "unknown".
C2_NoSharedGame ==
  (Returned /\ options.allowSameGame = Some(FALSE) /\ ~SingleGameRequested) =>
    \A i \in 1..Len(parlays) : ~SharesKnownGame(LegSet(parlays[i]))

\* parlays were returned from a pool in which two legs of different players
\* share a known game
C2_Witness ==
  /\ Returned
  /\ options.allowSameGame = Some(FALSE)
  /\ ~SingleGameRequested
  /\ parlays # <<>>
  /\ \E a \in EligibleLegs : \E b \in EligibleLegs :
       a.playerId # b.playerId /\ SharesKnownGame({a, b}) /\ ~HasStackPair({a, b})

----------------------------------------------------------------------------
(* C3 *)

\* C3: with allowSameTeamStack false no returned parlay contains a QB
\* pass_yards leg and a same-team WR/TE rec_yards leg; with
\* allowSameTeamStack true every combination that contains such a pair and
\* meets the other rules is returned, and every returned parlay containing
\* such a pair carries a qb_wr_stack penalty.
C3_RejectAndDiscount ==
  Returned =>
    /\ ~StackAllowed =>
         \A i \in 1..Len(parlays) : ~HasStackPair(LegSet(parlays[i]))
    /\ StackAllowed =>
         /\ \A S \in Combinations :
              (HasStackPair(S) /\ DistinctPlayers(S)
                 /\ (SameGameAllowed \/ ~SharesGame(S)))
              => \E i \in 1..Len(parlays) : LegSet(parlays[i]) = S
         /\ \A i \in 1..Len(parlays) :
              HasStackPair(LegSet(parlays[i])) => HasPenalty(parlays[i], "qb_wr_stack")

\* a returned parlay that contains a stack pair and is discounted for it
C3_Witness ==
  /\ Returned
  /\ StackAllowed
  /\ \E i \in 1..Len(parlays) :
       HasStackPair(LegSet(parlays[i])) /\ HasPenalty(parlays[i], "qb_wr_stack")

----------------------------------------------------------------------------
(* C4 *)

\* C4: the result holds exactly one parlay for every valid combination of
\* legCount eligible legs, nothing else, and no two parlays with the same
\* set of legs.  A leg is an entry of candidateLegs; legCount is the clamped
\* count.
C4_Combinations ==
  Returned =>
    /\ \A S \in Combinations :
         ValidSet(S) =>
           Cardinality({i \in 1..Len(parlays) : LegSet(parlays[i]) = S}) = 1
    /\ \A i \in 1..Len(parlays) :
         /\ Len(parlays[i].legs) = ClampedLegCount
         /\ LegSet(parlays[i]) \in Combinations
         /\ ValidSet(LegSet(parlays[i]))
    /\ \A i \in 1..Len(parlays) : \A j \in 1..Len(parlays) :
         LegSet(parlays[i]) = LegSet(parlays[j]) => i = j

\* several parlays were returned and some combination was rejected
C4_Witness ==
  /\ Returned
  /\ Len(parlays) >= 2
  /\ \E S \in Combinations : ~ValidSet(S)

----------------------------------------------------------------------------
(* C5 *)

\* mean of the legs' smoothed probabilities of p is greater than, or equal
\* to, that of q
MeanGeq(p, q) ==
  LET RECURSIVE total(_)
      total(ls) == IF ls = <<>> THEN 0 ELSE Head(ls).smoothedProb + total(Tail(ls))
  IN total(p.legs) * Len(q.legs) >= total(q.legs) * Len(p.legs)

\* C5: the returned sequence is ordered by adjusted probability descending,
\* and parlays with equal adjusted probability by the mean of their legs'
\* smoothed probabilities descending.
C5_Sorted ==
  Returned =>
    \A i \in 1..Len(parlays) : \A j \in 1..Len(parlays) :
      i < j =>
        /\ NumLeq(parlays[j].estProbability, parlays[i].estProbability)
        /\ NumEq(parlays[i].estProbability, parlays[j].estProbability)
             => MeanGeq(parlays[i], parlays[j])

\* two returned parlays tie on adjusted probability and differ in mean
C5_Witness ==
  /\ Returned
  /\ \E i \in 1..Len(parlays) : \E j \in 1..Len(parlays) :
       /\ i < j
       /\ NumEq(parlays[i].estProbability, parlays[j].estProbability)
       /\ ~MeanGeq(parlays[j], parlays[i])

----------------------------------------------------------------------------
(* C6 *)

----------------------------------------------------------------------------
(* C7 *)

\* the legs of every returned parlay have the gameId of the options
OnlyRequestedGame ==
  \A i \in 1..Len(parlays) : \A leg \in LegSet(parlays[i]) :
    \/ Some(leg.gameId) = options.gameId
    \/ (leg.gameId = "" /\ options.gameId = Undefined)

\* every combination that meets the rules other than the game rule is
\* returned
SameGameTreatedAsAllowed ==
  \A S \in Combinations :
    (DistinctPlayers(S) /\ (StackAllowed \/ ~HasStackPair(S)))
    => \E i \in 1..Len(parlays) : LegSet(parlays[i]) = S

----------------------------------------------------------------------------
(* Vocabulary of the penalty properties (section 4.5) *)

Penalised == called = "calculateParlayPenalties"

LegIndexes == 1..Len(legs)

Penalties == penaltyResult.penalties

\* the entries of one type recorded for one key
EntriesFor(type, key) ==
  {k \in 1..Len(Penalties) : Penalties[k].type = type /\ Penalties[k].key = key}

RECURSIVE ProductOfProbs(_)
ProductOfProbs(ls) ==
  IF ls = <<>> THEN NumOne
  ELSE NumMul(Num(Head(ls).smoothedProb, 1), ProductOfProbs(Tail(ls)))

\* the product of (1 - amount) over the recorded penalties of other types
RECURSIVE OtherFactors(_, _)
OtherFactors(ps, type) ==
  IF ps = <<>> THEN NumOne
  ELSE IF Head(ps).type = type THEN OtherFactors(Tail(ps), type)
  ELSE NumMul(NumOneMinus(Head(ps).amount), OtherFactors(Tail(ps), type))

GameIdents == {GameIdent(legs[i]) : i \in LegIndexes}

GameCount(g) == Cardinality({i \in LegIndexes : GameIdent(legs[i]) = g})

Teams == {legs[i].team : i \in LegIndexes} \ {""}

TeamCount(t) == Cardinality({i \in LegIndexes : legs[i].team = t})

TeamlessLegs == {i \in LegIndexes : legs[i].team = ""}

\* a team with a QB pass_yards leg and a WR/TE rec_yards leg
Qualifies(t) ==
  \E i \in LegIndexes : \E j \in LegIndexes :
    legs[i].team = t /\ StackPair(legs[i], legs[j])

\* 1 - (n/20)^k
OneMinusPow(n, k) == Num(20^k - n^k, k)

----------------------------------------------------------------------------
(* C8 *)

----------------------------------------------------------------------------
(* C9 *)

\* C9: for each team shared by count > 1 legs one same_team entry of amount
\* 1 - 0.95^(count-1) is recorded and the factor 0.95^(count-1) applied;
\* legs without a team never contribute to a same_team penalty.
C9_SameTeamPenalty ==
  Penalised =>
    /\ \A t \in Teams :
         IF TeamCount(t) > 1
         THEN /\ Cardinality(EntriesFor("same_team", t)) = 1
              /\ \A k \in EntriesFor("same_team", t) :
                   /\ Penalties[k].count = TeamCount(t)
                   /\ NumEq(Penalties[k].amount, OneMinusPow(19, TeamCount(t) - 1))
         ELSE EntriesFor("same_team", t) = {}
    /\ \A k \in 1..Len(Penalties) :
         Penalties[k].type = "same_team" => Penalties[k].key \in Teams
    /\ NumEq(penaltyResult.adjustedProbability,
             NumMul(NumMul(ProductOfProbs(legs),
                           NumPow(19, Len(legs) - Cardinality(TeamlessLegs)
                                        - Cardinality(Teams))),
                    OtherFactors(Penalties, "same_team")))

\* two legs share a team and two other legs have no team
C9_Witness ==
  /\ Penalised
  /\ Cardinality(TeamlessLegs) >= 2
  /\ \E t \in Teams : TeamCount(t) > 1 /\ EntriesFor("same_team", t) # {}

----------------------------------------------------------------------------
(* C10 *)

\* C10: the factor 0.85 is applied exactly once per team that has a QB
\* pass_yards leg and a WR/TE rec_yards leg, however many such legs it has,
\* and exactly one qb_wr_stack entry of amount 0.15 is recorded per such
\* team and none for any other team.
C10_StackPenaltyFlat ==
  Penalised =>
    /\ \A t \in Teams :
         IF Qualifies(t)
         THEN /\ Cardinality(EntriesFor("qb_wr_stack", t)) = 1
              /\ \A k \in EntriesFor("qb_wr_stack", t) :
                   NumEq(Penalties[k].amount, Num(3, 1))
         ELSE EntriesFor("qb_wr_stack", t) = {}
    /\ \A k \in 1..Len(Penalties) :
         Penalties[k].type = "qb_wr_stack" => Penalties[k].key \in Teams
    /\ NumEq(penaltyResult.adjustedProbability,
             NumMul(NumMul(ProductOfProbs(legs),
                           NumPow(17, Cardinality({t \in Teams : Qualifies(t)}))),
                    OtherFactors(Penalties, "qb_wr_stack")))

\* a team with one QB pass_yards leg and two receiving legs of different
\* players, penalised once
C10_Witness ==
  /\ Penalised
  /\ \E t \in Teams :
       /\ Qualifies(t)
       /\ Cardinality({legs[i].playerId : i \in
             {j \in LegIndexes : legs[j].team = t /\ legs[j].statType = "rec_yards"}}) >= 2
       /\ Cardinality(EntriesFor("qb_wr_stack", t)) = 1

----------------------------------------------------------------------------
(* C11 *)

\* the sequence ls with the legs at i and i + 1 exchanged
SwapLegs(ls, i) ==
  [j \in 1..Len(ls) |-> IF j = i THEN ls[i + 1]
                        ELSE IF j = i + 1 THEN ls[i] ELSE ls[j]]

\* the six orders of the three penalty rules
RuleOrders ==
  { o \in [1..3 -> {"same_game", "same_team", "qb_wr_stack"}] :
      \A a \in 1..3 : \A b \in 1..3 : o[a] = o[b] => a = b }

\* one rule of calculateParlayPenalties applied to an accumulator
ApplyRule(rule, ls, acc) ==
  LET gameKeys == [i \in 1..Len(ls) |-> gameKey(ls[i])]
      withTeam == teamedLegs(ls)
      teamKeys == [i \in 1..Len(withTeam) |-> withTeam[i].team]
  IN CASE rule = "same_game" -> sameGamePenalties(MapKeys(gameKeys), gameKeys, acc)
       [] rule = "same_team" -> sameTeamPenalties(MapKeys(teamKeys), teamKeys, acc)
       [] rule = "qb_wr_stack" -> stackPenalties(MapKeys(teamKeys), withTeam, acc)

\* the adjusted probability when the rules are applied in the order o
AdjustedInOrder(o, ls) ==
  LET start == [multiplier |-> NumOne, penalties |-> <<>>]
      final == ApplyRule(o[3], ls, ApplyRule(o[2], ls, ApplyRule(o[1], ls, start)))
  IN NumMax0(NumMul(calculateParlayProbability(ls), final.multiplier))

\* the product of every triggered factor: 0.90 per extra leg of a game, 0.95
\* per extra leg of a team, 0.85 per team with a QB/WR stack
TriggeredFactors ==
  NumMul(NumMul(NumPow(18, Len(legs) - Cardinality(GameIdents)),
                NumPow(19, Len(legs) - Cardinality(TeamlessLegs) - Cardinality(Teams))),
         NumPow(17, Cardinality({t \in Teams : Qualifies(t)})))

----------------------------------------------------------------------------
(* Vocabulary of the leg properties (section 4.2) *)

ProbabilityComputed == called = "calculateProbability"

LegsGenerated == called = "generateLegs"

GameIndexes == 1..Len(gameLogs)

\* the requested number of games: all of them when lastN is omitted
RequestedGames ==
  IF legOptions.lastN = Undefined THEN Len(gameLogs) ELSE legOptions.lastN[1]

\* game j comes before game i in the order most recent first (games of one
\* date keep the order of the input)
ComesBefore(j, i) ==
  \/ gameLogs[j].gameDate > gameLogs[i].gameDate
  \/ gameLogs[j].gameDate = gameLogs[i].gameDate /\ j < i

\* the selected games: the RequestedGames most recent ones
SelectedGames ==
  {i \in GameIndexes :
     Cardinality({j \in GameIndexes : ComesBefore(j, i)}) < RequestedGames}

\* the selected games that carry a value for the statistic
CarryingGames(statType) ==
  {i \in SelectedGames : gameLogs[i][statType].kind \notin {"null", "undefined"}}

\* those whose value is at least the threshold
MeetingGames(statType, threshold) ==
  {i \in CarryingGames(statType) :
     gameLogs[i][statType].kind = "number" /\ gameLogs[i][statType].v >= threshold}

SampleN(statType) == Cardinality(CarryingGames(statType))

HitsK(statType, threshold) == Cardinality(MeetingGames(statType, threshold))

GeneratedLegs == {generatedLegs[i] : i \in 1..Len(generatedLegs)}

----------------------------------------------------------------------------
(* C12 *)

----------------------------------------------------------------------------
(* C13 *)

\* every threshold declared for some statistic
DeclaredThresholds ==
  UNION { {STAT_THRESHOLDS[StatTypes[i]][j] : j \in 1..Len(STAT_THRESHOLDS[StatTypes[i]])} :
          i \in 1..Len(StatTypes) }

\* the smoothed probability of the same sample and statistic at threshold t
SmoothedAt(t) ==
  calculateProbability(gameLogs, probArgs[1].statType, t,
                       DEFAULT_BETA_A, DEFAULT_BETA_B).smoothedProb

\* C13: for a fixed sample and statistic, the smoothed probability at a
\* threshold is at least the one at any higher threshold and at most the one
\* at any lower threshold.
C13_Monotone ==
  ProbabilityComputed =>
    \A t \in DeclaredThresholds :
      /\ probArgs[1].threshold <= t => RatioGeq(probResult.smoothedProb, SmoothedAt(t))
      /\ t <= probArgs[1].threshold => RatioGeq(SmoothedAt(t), probResult.smoothedProb)

\* a higher threshold of the same statistic gives a strictly smaller
\* smoothed probability
C13_Witness ==
  /\ ProbabilityComputed
  /\ \E t \in DeclaredThresholds :
       /\ probArgs[1].threshold < t
       /\ RatioLess(SmoothedAt(t), probResult.smoothedProb)

----------------------------------------------------------------------------
(* C14 *)

MinProbability ==
  Hundredths(IF legOptions.minProbability = Undefined THEN 80
             ELSE legOptions.minProbability[1])

MinSampleSize ==
  IF legOptions.minSampleSize = Undefined THEN 6 ELSE legOptions.minSampleSize[1]

\* the threshold meets both bars on the selected games
MeetsBars(statType, threshold) ==
  /\ SampleN(statType) >= MinSampleSize
  /\ SampleN(statType) >= 1
  /\ RatioGeq(Ratio(HitsK(statType, threshold) + 4, SampleN(statType) + 6),
              MinProbability)

Declared(statType) ==
  {STAT_THRESHOLDS[statType][j] : j \in 1..Len(STAT_THRESHOLDS[statType])}

\* C14: the sequence returned by one generateLegs call never contains two
\* legs with the same (playerId, statType) pair.
C14_OneLegPerStatistic ==
  LegsGenerated =>
    \A i \in 1..Len(generatedLegs) : \A j \in 1..Len(generatedLegs) :
      ( /\ generatedLegs[i].playerId = generatedLegs[j].playerId
        /\ generatedLegs[i].statType = generatedLegs[j].statType ) => i = j

\* several legs are returned, one of them for a statistic of which a higher
\* threshold meets both bars as well
C14_Witness ==
  /\ LegsGenerated
  /\ Len(generatedLegs) >= 2
  /\ \E leg \in GeneratedLegs : \E t \in Declared(leg.statType) :
       t > leg.threshold /\ MeetsBars(leg.statType, t)

----------------------------------------------------------------------------
(* Vocabulary of the touches filter (section 4.2, step 2) *)

MinTouchesPerGame ==
  IF legOptions.minTouchesPerGame = Undefined THEN 5
  ELSE legOptions.minTouchesPerGame[1]

\* the most recent selected games (one, when there is any)
MostRecentGames == {i \in SelectedGames : \A j \in SelectedGames : ~ComesBefore(j, i)}

\* the player's role is read from the most recent selected game
HasRole(roles) ==
  \E i \in MostRecentGames : toUpperCase(gameLogs[i].position) \in roles

Carried(i, field) == gameLogs[i][field].kind = "number"

ValueOrZero(i, field) == IF Carried(i, field) THEN gameLogs[i][field].v ELSE 0

\* rush attempts + receptions for a rushing role, the attempts estimated as
\* the rounded rush_yards / 4.5 when they are missing; targets, or receptions
\* when targets are missing, for a receiving role
GameTouches(i) ==
  IF HasRole({"RB"})
  THEN (IF Carried(i, "rush_attempts") THEN gameLogs[i].rush_attempts.v
        ELSE (2 * ValueOrZero(i, "rush_yards") + 4) \div 9 )
       + ValueOrZero(i, "receptions")
  ELSE IF HasRole({"WR", "TE"})
  THEN IF Carried(i, "targets") THEN gameLogs[i].targets.v
       ELSE ValueOrZero(i, "receptions")
  ELSE 0

RECURSIVE TouchesIn(_)
TouchesIn(S) ==
  IF S = {} THEN 0
  ELSE LET i == CHOOSE x \in S : TRUE IN GameTouches(i) + TouchesIn(S \ {i})

\* the selected games in which the player has touches
GamesWithTouches == {i \in SelectedGames : GameTouches(i) > 0}

\* the average over the games with touches is at least the minimum (the
\* average is 0 when there is no such game)
AverageOfGamesWithTouchesSuffices ==
  IF GamesWithTouches = {} THEN 0 >= MinTouchesPerGame
  ELSE TouchesIn(GamesWithTouches) >= MinTouchesPerGame * Cardinality(GamesWithTouches)

\* a quarterback with a selected game passes when the minimum is at most 100
TouchesFilterPasses ==
  IF HasRole({"QB"}) THEN 100 >= MinTouchesPerGame
  ELSE AverageOfGamesWithTouchesSuffices

----------------------------------------------------------------------------
(* C15 *)

\* the selected games with a numeric value for the statistic
NumericGames(statType) == {i \in SelectedGames : Carried(i, statType)}

LegsFor(statType) == {leg \in GeneratedLegs : leg.statType = statType}

StatTypeSet == {StatTypes[i] : i \in 1..Len(StatTypes)}

\* C15: provided the touches filter passes, a leg is emitted for a
\* statistic if and only if at least 4 selected games carry a numeric value
\* for it and some declared threshold has n >= minSampleSize and smoothed
\* probability >= minProbability; its threshold is the lowest declared one
\* meeting both bars; every emitted leg has sampleSize >= minSampleSize and
\* smoothedProb >= minProbability.
C15_EmittedIffBarsMet ==
  LegsGenerated =>
    /\ TouchesFilterPasses =>
         \A statType \in StatTypeSet :
           /\ LegsFor(statType) # {}
                <=> /\ Cardinality(NumericGames(statType)) >= 4
                    /\ \E t \in Declared(statType) : MeetsBars(statType, t)
           /\ \A leg \in LegsFor(statType) :
                /\ leg.threshold \in Declared(statType)
                /\ MeetsBars(statType, leg.threshold)
                /\ \A t \in Declared(statType) :
                     MeetsBars(statType, t) => leg.threshold <= t
    /\ \A leg \in GeneratedLegs :
         /\ leg.sampleSize >= MinSampleSize
         /\ RatioGeq(leg.smoothedProb, MinProbability)

\* a leg is emitted for one statistic, another statistic meets both bars
\* but has fewer than 4 numeric values, and a third has 4 numeric values
\* but no threshold meeting both bars
C15_Witness ==
  /\ LegsGenerated
  /\ TouchesFilterPasses
  /\ GeneratedLegs # {}
  /\ \E statType \in StatTypeSet :
       /\ Cardinality(NumericGames(statType)) < 4
       /\ \E t \in Declared(statType) : MeetsBars(statType, t)
  /\ \E statType \in StatTypeSet :
       /\ Cardinality(NumericGames(statType)) >= 4
       /\ \A t \in Declared(statType) : ~MeetsBars(statType, t)

----------------------------------------------------------------------------
(* C16 *)

ConfidenceComputed == called = "getConfidenceLevel"

\* the band of the probability p: >= 0.85 Elite, >= 0.75 Strong, >= 0.65
\* Fair, otherwise Speculative
Band(p) ==
  IF 100 * p.num >= 85 * p.den THEN "Elite"
  ELSE IF 100 * p.num >= 75 * p.den THEN "Strong"
  ELSE IF 100 * p.num >= 65 * p.den THEN "Fair"
  ELSE "Speculative"

\* the receiving yards of the games, as given
ReceivingYards == [i \in GameIndexes |-> gameLogs[i].rec_yards]

ScenarioYards ==
  <<NumberValue(80), NumberValue(60), NumberValue(55), NumberValue(40),
    NumberValue(30), NumberValue(20)>>

\* C16: the confidence band is determined by the smoothed probability alone,
\* with the lower edges inclusive (>= 0.85 Elite, >= 0.75 Strong, >= 0.65
\* Fair, otherwise Speculative), for the probability just computed and for
\* every emitted leg; receiving yards 80, 60, 55, 40, 30, 20 with threshold
\* 40 give k = 4, n = 6, smoothed 8/12 and the band Fair.
C16_ConfidenceBands ==
  /\ ConfidenceComputed => confidence = Band(probResult.smoothedProb)
  /\ LegsGenerated => \A leg \in GeneratedLegs : leg.confidence = Band(leg.smoothedProb)
  /\ ( /\ ConfidenceComputed
       /\ ReceivingYards = ScenarioYards
       /\ probArgs = Some([statType |-> "rec_yards", threshold |-> 40]) )
     => /\ probResult.sampleSize = 6
        /\ probResult.rawProb = Ratio(4, 6)
        /\ probResult.smoothedProb = Ratio(8, 12)
        /\ confidence = "Fair"

\* a smoothed probability of exactly 0.85 is Elite
C16_Witness ==
  /\ ConfidenceComputed
  /\ 100 * probResult.smoothedProb.num = 85 * probResult.smoothedProb.den
  /\ confidence = "Elite"

----------------------------------------------------------------------------
(* C17 *)

\* some statistic has 4 numeric values and a declared threshold meeting both
\* bars
SomeStatisticQualifies ==
  \E statType \in StatTypeSet :
    /\ Cardinality(NumericGames(statType)) >= 4
    /\ \E t \in Declared(statType) : MeetsBars(statType, t)

\* the touches of a game as C17 words them: rush attempts + receptions for a
\* rushing role; targets, or receptions as fallback, for a receiving role
StatedTouches(i) ==
  IF HasRole({"RB"})
  THEN ValueOrZero(i, "rush_attempts") + ValueOrZero(i, "receptions")
  ELSE IF HasRole({"WR", "TE"})
  THEN IF Carried(i, "targets") THEN gameLogs[i].targets.v
       ELSE ValueOrZero(i, "receptions")
  ELSE 0

RECURSIVE StatedTouchesIn(_)
StatedTouchesIn(S) ==
  IF S = {} THEN 0
  ELSE LET i == CHOOSE x \in S : TRUE IN StatedTouches(i) + StatedTouchesIn(S \ {i})

\* a position without a touches proxy
NoTouchesProxy == ~HasRole({"RB", "WR", "TE"})

\* the average over all the selected games is below the minimum
AverageOfSelectedGamesBelow ==
  /\ SelectedGames # {}
  /\ StatedTouchesIn(SelectedGames) < MinTouchesPerGame * Cardinality(SelectedGames)

\* C17 as stated: the average is taken over the selected games; below the
\* minimum no legs are emitted; a position without a touches proxy is
\* exempt, so it gets a leg whenever a statistic qualifies.
C17_AverageOverSelected ==
  LegsGenerated =>
    /\ (~NoTouchesProxy /\ AverageOfSelectedGamesBelow) => generatedLegs = <<>>
    /\ (NoTouchesProxy /\ SomeStatisticQualifies) => generatedLegs # <<>>

\* C17 (amended): the average is taken over those of the lastN most recent
\* games in which the player has touches (rush attempts, estimated from the
\* rush yards when missing, + receptions for RB; targets, or receptions as
\* fallback, for WR and TE) and is 0 when there is none; below
\* minTouchesPerGame no legs are emitted; only a quarterback is exempt; when
\* the filter passes, legs are emitted exactly when a statistic qualifies.
C17_TouchesGate ==
  LegsGenerated =>
    /\ ~TouchesFilterPasses => generatedLegs = <<>>
    /\ TouchesFilterPasses => (generatedLegs # <<>> <=> SomeStatisticQualifies)

\* a receiver or rusher with touches whose average is below the minimum,
\* although a statistic qualifies
C17_Witness ==
  /\ LegsGenerated
  /\ HasRole({"RB", "WR", "TE"})
  /\ GamesWithTouches # {}
  /\ ~TouchesFilterPasses
  /\ SomeStatisticQualifies
  /\ generatedLegs = <<>>

----------------------------------------------------------------------------
(* C18 *)

\* no combination of the eligible legs is valid
NoValidCombination == \A S \in Combinations : ~ValidSet(S)

\* C18: generateLegs returns the empty sequence for a player with no logs,
\* with insufficient touches or with no statistic clearing its bar, and
\* generateParlays returns the empty sequence when no valid combination
\* exists, in particular when fewer than legCount legs pass the filters.
C18_EmptyNotError ==
  /\ (LegsGenerated /\ ( \/ gameLogs = <<>>
                          \/ ~TouchesFilterPasses
                          \/ ~SomeStatisticQualifies ))
       => generatedLegs = <<>>
  /\ Returned =>
       /\ NoValidCombination => parlays = <<>>
       /\ Cardinality(EligibleLegs) < ClampedLegCount => parlays = <<>>

\* a player with logs and sufficient touches of whom no statistic clears its
\* bar gets the empty sequence
C18_Witness ==
  /\ LegsGenerated
  /\ Len(gameLogs) >= 4
  /\ TouchesFilterPasses
  /\ HasRole({"RB", "WR", "TE"})
  /\ ~SomeStatisticQualifies
  /\ generatedLegs = <<>>

----------------------------------------------------------------------------
(* Vocabulary of the normalizer properties (section 4.1) *)

Normalized == called \in {"normalizeGameLog", "normalizeGameLog again"}

NormalizedAgain == called = "normalizeGameLog again"

TrackedStatistics == {"pass_yards", "rush_yards", "rec_yards", "receptions", "pass_tds"}

\* the alternate names of a tracked statistic
AlternatesOf(statistic) ==
  CASE statistic = "pass_yards" -> {"passing_yards"}
    [] statistic = "rush_yards" -> {"rushing_yards"}
    [] statistic = "rec_yards" -> {"receiving_yards"}
    [] statistic = "receptions" -> {"rec"}
    [] statistic = "pass_tds" -> {"passing_tds", "pass_td"}

\* the record has a value (not null, not undefined) under the key
HasValue(record, key) == record[key].kind \notin {"absent", "undefined", "null"}

\* a canonical record: every tracked statistic has a value
Canonical(record) == \A statistic \in TrackedStatistics : HasValue(record, statistic)

----------------------------------------------------------------------------
(* C19 *)

\* C19: normalizing an already canonical record returns a record equal to
\* it, and normalizing the result of a normalization returns that result.
C19_Idempotent ==
  /\ (Normalized /\ Canonical(rawLog)) => normalizedLog = rawLog
  /\ NormalizedAgain => (Canonical(rawLog) /\ normalizedLog = rawLog)

\* the record normalized again got its pass_tds from an alternate field and
\* a zero for a missing statistic
C19_Witness ==
  /\ NormalizedAgain
  /\ HasValue(rawLog, "pass_td")
  /\ rawLog.pass_tds = rawLog.pass_td
  /\ rawLog.pass_tds # NumberValue(0)
  /\ rawLog.rush_yards = NumberValue(0)
  /\ normalizedLog = rawLog

----------------------------------------------------------------------------
(* C20 *)

----------------------------------------------------------------------------
(* Vocabulary of the activity filter *)

StatusComputed == called = "isPlayerActive"

LogsFiltered == called = "filterActivePlayers"

LogIndexes == 1..Len(allLogs)

\* the logs of player p
LogsOfPlayer(p) == { i \in LogIndexes : allLogs[i].playerId = p }

\* the log is of the week and season asked for
AtRequestedWeek(i) ==
  /\ allLogs[i].week = NumberValue(activityArgs.week)
  /\ allLogs[i].season = NumberValue(activityArgs.season)

\* the first log of player p in the order of the input
FirstLog(p) == CHOOSE i \in LogsOfPlayer(p) : \A j \in LogsOfPlayer(p) : i <= j

\* log i is a log of the team of player p (the team of the player's first
\* log)
OfPlayersTeam(i, p) ==
  LogsOfPlayer(p) # {} /\ allLogs[i].team = allLogs[FirstLog(p)].team

\* some log of the player's team exists at the week and season asked for
TeamPlays(p) == \E i \in LogIndexes : OfPlayersTeam(i, p) /\ AtRequestedWeek(i)

\* the player has a log and the first one names a team
HasTeam(p) == LogsOfPlayer(p) # {} /\ allLogs[FirstLog(p)].team # ""

\* log j is more recent than log i; of two games of one date the one that
\* comes first in the input counts as the more recent
MoreRecent(j, i) ==
  \/ allLogs[j].gameDate > allLogs[i].gameDate
  \/ allLogs[j].gameDate = allLogs[i].gameDate /\ j < i

TwoMostRecent(p) ==
  { i \in LogsOfPlayer(p) :
      Cardinality({ j \in LogsOfPlayer(p) : MoreRecent(j, i) }) < 2 }

DefinedPositiveSnaps(i) == allLogs[i].snaps.kind = "number" /\ allLogs[i].snaps.v > 0

RecentSnaps(p) ==
  /\ Cardinality(LogsOfPlayer(p)) >= 2
  /\ \A i \in TwoMostRecent(p) : DefinedPositiveSnaps(i)

----------------------------------------------------------------------------
(* C21 *)

\* C21 as stated: isOnBye is true exactly when no log of the player's team
\* exists at the week and season asked for, hasRecentSnaps exactly when the
\* player has two logs or more and the two most recent have a defined snap
\* count above 0, and isActive = (not isOnBye) and hasRecentSnaps.
C21_ByeExactlyWhenNoTeamLog ==
  StatusComputed =>
    /\ playerStatus.isOnBye = ~TeamPlays(activityArgs.playerId)
    /\ playerStatus.hasRecentSnaps = RecentSnaps(activityArgs.playerId)
    /\ playerStatus.isActive = (~playerStatus.isOnBye /\ playerStatus.hasRecentSnaps)

\* C21 (amended): for a player who has a log and whose first log names a
\* team, isOnBye is true exactly when no log of that team exists at the
\* week and season asked for; for a player without logs or without team
\* isOnBye is false.  hasRecentSnaps is true exactly when the player has two
\* logs or more and the two most recent have a defined snap count above 0,
\* and isActive = (not isOnBye) and hasRecentSnaps.
C21_PlayerStatus ==
  StatusComputed =>
    /\ playerStatus.isOnBye =
         (HasTeam(activityArgs.playerId) /\ ~TeamPlays(activityArgs.playerId))
    /\ playerStatus.hasRecentSnaps = RecentSnaps(activityArgs.playerId)
    /\ playerStatus.isActive = (~playerStatus.isOnBye /\ playerStatus.hasRecentSnaps)

\* an active player with three logs or more, one of them without snaps
C21_Witness ==
  /\ StatusComputed
  /\ playerStatus.isActive
  /\ Cardinality(LogsOfPlayer(activityArgs.playerId)) >= 3
  /\ \E i \in LogsOfPlayer(activityArgs.playerId) : ~DefinedPositiveSnaps(i)

----------------------------------------------------------------------------
(* C22 *)

\* what isPlayerActive reports as isActive for player p on the full input
ReportedActive(p) == ~(HasTeam(p) /\ ~TeamPlays(p)) /\ RecentSnaps(p)

\* C22 as stated: filterActivePlayers returns, in input order, exactly the
\* logs whose playerId isPlayerActive reports active on the same input.
C22_ExactlyLogsOfActivePlayers ==
  LogsFiltered =>
    activeGameLogs = SelectSeq(allLogs, LAMBDA log : ReportedActive(log.playerId))

\* C22 (amended): filterActivePlayers returns, in input order, exactly the
\* logs that have a non-empty playerId which isPlayerActive reports active
\* on the same input; a log without playerId is never returned.
C22_LogsOfActivePlayers ==
  LogsFiltered =>
    activeGameLogs =
      SelectSeq(allLogs, LAMBDA log : log.playerId # "" /\ ReportedActive(log.playerId))

\* logs of an active player are returned and a log of an inactive player is
\* dropped
C22_Witness ==
  /\ LogsFiltered
  /\ activeGameLogs # <<>>
  /\ \E i \in LogIndexes :
       allLogs[i].playerId # "" /\ ~ReportedActive(allLogs[i].playerId)

----------------------------------------------------------------------------
(* C23 *)

----------------------------------------------------------------------------
(* C24 *)

\* C24: after setCache(key, data, ttlMs), with no later setCache,
\* deleteCache or clearCache for that key, a getCache(key) made while the
\* clock is not past the write time + ttlMs returns data, and a getCache(key)
\* made after that time returns null and leaves no entry for the key.
C24_TTLProtocol ==
  (called = "getCache" /\ lastSet[cacheArgs[1]] # Undefined) =>
    LET key == cacheArgs[1]
        written == lastSet[key][1]
    IN IF now <= written.expiresAt
       THEN cacheResult = Some(written.data)
       ELSE /\ cacheResult = Some(NullValue)
            /\ cacheDir[getCacheFilePath(key)] = Undefined

----------------------------------------------------------------------------
(* C25 *)

RangeLoaded == called = "loadGameLogsForRange"

\* the logs of the cache files of the weeks week..endWeek, week after week
RECURSIVE CachedLogsOfWeeks(_, _)
CachedLogsOfWeeks(week, endWeek) ==
  IF week > endWeek THEN <<>>
  ELSE OrElse(weekFiles[week], <<>>) \o CachedLogsOfWeeks(week + 1, endWeek)

\* C25: loadGameLogsForRange(season, startWeek, endWeek) returns the logs of
\* the weeks startWeek..endWeek of the season and nothing else: each cached
\* week's logs exactly once, whatever subset of the weeks is in the cache.
C25_ExactlyTheWeeksOfTheRange ==
  RangeLoaded =>
    rangeResult.gameLogs = CachedLogsOfWeeks(request.startWeek, request.endWeek)

----------------------------------------------------------------------------
(* C26 *)

LegsReturned == called = "GET /api/legs" /\ response.status = 200

\* the players of the legs and of the near misses of the response
ReturnedPlayers ==
  { response.legs[i].playerId : i \in 1..Len(response.legs) }
    \cup { OrElse(response.nearMisses, <<>>)[i].playerId :
             i \in 1..Len(OrElse(response.nearMisses, <<>>)) }

\* C26: in bulk mode GET /api/legs returns legs and near misses only of
\* players that isPlayerActive reports active, on the logs loaded for the
\* requested week and season.
C26_OnlyActivePlayers ==
  LegsReturned =>
    \A p \in ReturnedPlayers :
      isPlayerActive(allLogs, p, request.week, request.season).isActive

----------------------------------------------------------------------------
(* C27 *)

ProbabilityPosted == called = "POST /api/parlay-prob" /\ probResponse.status = 200

\* C27: for model legs sent in the incoming format, POST /api/parlay-prob
\* answers with the adjusted probability and the penalties that
\* calculateParlayPenalties gives for the original legs.
C27_SameAsCalculateParlayPenalties ==
  ProbabilityPosted =>
    /\ probResponse.estProbability = Some(penaltyResult.adjustedProbability)
    /\ probResponse.penaltyBreakdown =
         IF Len(penaltyResult.penalties) > 0 THEN Some(penaltyResult.penalties)
         ELSE Undefined

----------------------------------------------------------------------------
(* C28 *)

\* the lowest threshold declared for a statistic
LowestThreshold(statType) ==
  CASE statType = "pass_yards" -> 150
    [] statType = "rush_yards" -> 25
    [] statType = "rec_yards" -> 25
    [] statType = "receptions" -> 2
    [] statType = "pass_tds" -> 1

\* C28: every leg emitted by generateLegs carries the lowest threshold
\* declared for its statistic (pass_yards 150, rush_yards 25, rec_yards 25,
\* receptions 2, pass_tds 1); no higher threshold is ever emitted.
C28_LowestThresholdOnly ==
  LegsGenerated =>
    \A leg \in GeneratedLegs :
      /\ leg.threshold = LowestThreshold(leg.statType)
      /\ \A j \in 1..Len(STAT_THRESHOLDS[leg.statType]) :
           leg.threshold <= STAT_THRESHOLDS[leg.statType][j]

\* a leg is emitted at the lowest threshold although the values of its
\* games also reach the highest threshold of the statistic and no minimum
\* probability is asked for
C28_Witness ==
  /\ LegsGenerated
  /\ legOptions.minProbability = Some(0)
  /\ \E leg \in GeneratedLegs :
       /\ Len(STAT_THRESHOLDS[leg.statType]) > 1
       /\ leg.threshold = LowestThreshold(leg.statType)
       /\ \E j \in 1..Len(leg.lastNGameValues) :
            /\ leg.lastNGameValues[j].kind = "number"
            /\ leg.lastNGameValues[j].v >=
                 STAT_THRESHOLDS[leg.statType][Len(STAT_THRESHOLDS[leg.statType])]

----------------------------------------------------------------------------
(* C29 *)

NumZero == Num(0, 0)

\* x lies in [0, 1]
IsProbability(x) == NumLeq(NumZero, x) /\ NumLeq(x, NumOne)

\* C29: for legs with smoothed probabilities in [0,1]
\* calculateParlayPenalties returns 0 <= adjusted <= product of the smoothed
\* probabilities, every recorded amount lies strictly between 0 and 1, and
\* adjusted = product when no penalty is recorded; every parlay returned by
\* generateParlays has estimatedProbability = estProbability, in [0,1] and at
\* most the naive joint probability.
C29_AdjustedWithinProduct ==
  /\ Penalised =>
       /\ NumLeq(NumZero, penaltyResult.adjustedProbability)
       /\ NumLeq(penaltyResult.adjustedProbability, ProductOfProbs(legs))
       /\ \A k \in 1..Len(Penalties) :
            NumLess(NumZero, Penalties[k].amount) /\ NumLess(Penalties[k].amount, NumOne)
       /\ Len(Penalties) = 0 =>
            NumEq(penaltyResult.adjustedProbability, ProductOfProbs(legs))
  /\ Returned =>
       \A i \in 1..Len(parlays) :
         /\ parlays[i].estimatedProbability = parlays[i].estProbability
         /\ IsProbability(parlays[i].estProbability)
         /\ NumLeq(parlays[i].estProbability, ProductOfProbs(parlays[i].legs))

\* a parlay is returned whose penalties bring the estimate strictly below
\* the product of its legs' probabilities
C29_Witness ==
  /\ Returned
  /\ \E i \in 1..Len(parlays) :
       /\ parlays[i].penaltyBreakdown # Undefined
       /\ NumLess(parlays[i].estProbability, ProductOfProbs(parlays[i].legs))
       /\ NumLess(NumZero, parlays[i].estProbability)

\* penalties computed on legs directly: some recorded, adjusted below the
\* product
C29_PenalisedReached ==
  /\ Penalised
  /\ Len(Penalties) > 0
  /\ NumLess(penaltyResult.adjustedProbability, ProductOfProbs(legs))

----------------------------------------------------------------------------
(* C30 *)

\* the leg carries neither gameId nor gameDate
Unidentified(leg) == leg.gameId = "" /\ leg.gameDate = ""

UnidentifiedIn(S) == {leg \in S : Unidentified(leg)}

\* the legs given to calculateParlayPenalties that carry no game
UnidentifiedLegs == {i \in LegIndexes : Unidentified(legs[i])}

\* calculateParlayPenalties treats the legs without game as one game keyed
\* "unknown": for count > 1 of them one same_game entry of that key, of
\* amount 1 - 0.90^(count-1), and none otherwise; when no leg carries a game
\* or a team the adjusted probability is the product times 0.90^(count-1)
UnknownGamePenalised ==
  LET count == Cardinality(UnidentifiedLegs)
  IN /\ IF count > 1
        THEN /\ Cardinality(EntriesFor("same_game", "unknown")) = 1
             /\ \A k \in EntriesFor("same_game", "unknown") :
                  /\ Penalties[k].count = count
                  /\ NumEq(Penalties[k].amount, OneMinusPow(18, count - 1))
        ELSE EntriesFor("same_game", "unknown") = {}
     /\ (count > 1 /\ count = Len(legs) /\ \A i \in LegIndexes : legs[i].team = "")
          => NumEq(penaltyResult.adjustedProbability,
                   NumMul(ProductOfProbs(legs), NumPow(18, count - 1)))

\* C30 as stated: legs with neither gameId nor gameDate belong to one game
\* keyed "unknown": with allowSameGame=false generateParlays never returns a
\* parlay with two such legs, and calculateParlayPenalties applies the
\* same_game factor 0.90^(count-1) to any count > 1 of them.
C30_AllowSameGameFalse ==
  /\ (Returned /\ options.allowSameGame = Some(FALSE)) =>
       \A i \in 1..Len(parlays) : Cardinality(UnidentifiedIn(LegSet(parlays[i]))) <= 1
  /\ Penalised => UnknownGamePenalised

\* C30 (amended): legs with neither gameId nor gameDate belong to one game
\* keyed "unknown": with allowSameGame false or omitted and singleGame not
\* true generateParlays never returns a parlay with two such legs, and
\* calculateParlayPenalties applies the same_game factor 0.90^(count-1) to
\* any count > 1 of them.
C30_UnknownGame ==
  /\ (Returned /\ ~SameGameAllowed) =>
       \A i \in 1..Len(parlays) : Cardinality(UnidentifiedIn(LegSet(parlays[i]))) <= 1
  /\ Penalised => UnknownGamePenalised

\* parlays were returned with allowSameGame=false from a pool that holds two
\* legs of different players without game
C30_Witness ==
  /\ Returned
  /\ options.allowSameGame = Some(FALSE)
  /\ ~SingleGameRequested
  /\ parlays # <<>>
  /\ \E a \in EligibleLegs : \E b \in EligibleLegs :
       a.playerId # b.playerId /\ Unidentified(a) /\ Unidentified(b)

====
